---- MODULE Spec2Model ----
(***************************************************************************)
(* State-machine model of the admin dashboard (AdminDashboard.tsx) and of  *)
(* the project detail view (ProjectDetail.tsx).                            *)
(*                                                                         *)
(* A React event handler together with the re-render it causes and the     *)
(* effects whose dependencies changed in that render is one atomic step:   *)
(* React flushes the effects of a commit before it handles the next event. *)
(***************************************************************************)
EXTENDS Integers, Sequences, FiniteSets, TLC

\* ------------------------------------------------------------------ bounds
NumProjects == 3      \* projects on the dashboard, ids 1..NumProjects
MaxLikes == 1         \* likes given by visitors over the whole run
MaxLogs == 4          \* chat log entries held by the server
MaxTime == 3          \* createdAt values are 1..MaxTime
TicksPerDay == 2      \* createdAt values that fall on one calendar day
MaxMessages == 12     \* contact messages held by the server
MaxSubmits == 3       \* addComment calls made from the detail view
MaxRemote == 1        \* likes, and comments, that other visitors add to a project
MaxArrivals == 2      \* contact messages, and chat questions, that reach the service
MaxMutations == 2     \* logo and message mutation calls made from the dashboard
MaxScrollWidth == 6   \* scrollWidth of the comments ribbon, in pixels
MaxPageX == 2         \* pageX of a mouse event over the ribbon is 0..MaxPageX
MaxHoverTimers == 2   \* pending setTimeout(() => setIsHovering(false), 1000)
MaxInterval == 3      \* the interval prop of the treat modal, in seconds
MaxShowLimit == 3     \* the maxShowCount prop of the treat modal
MaxSends == 3         \* messages the visitor sends to the chat widget

\* ------------------------------------------------------- program constants
ITEMS_PER_PAGE == 5

VARIABLES
    \* AdminDashboard: reorderable list
    projects,         \* the `projects` prop (canonical list held by the caller)
    localProjects,    \* useState(projects)
    isDragging,       \* useState(false)
    reorderArg,       \* argument of the gesture's onReorderProjects call, <<>> if none
    callsInGesture,   \* onReorderProjects calls since the last drag start
    dragStartSet,     \* the projects held in localProjects at the last drag start
    persist,          \* the caller's persisting of reorderArg: none/inflight/ok/failed
    propGotOrder,     \* the prop has equalled reorderArg since the call was made
    \* AdminDashboard: inbox
    messages,         \* useState<ContactMessage[]>([])
    chatLogs,         \* useState<ChatLog[]>([])
    inboxTab,         \* useState('contact')
    dateFilter,       \* useState(''): 0 is the empty filter, d > 0 the date of day d
    inboxPage,        \* useState(1)
    resetFrom,        \* the page shown when inboxTab or dateFilter last changed, 0 if never
    \* ProjectDetail, one instance per browser tab showing the site
    detail,           \* per tab: id of the project its ProjectDetail shows, 0 if none
    likes,            \* per tab: useState(initialProject.likes || 0)
    isLiked,          \* per tab: useState(false)
    store,            \* per tab: likes of each project as the caller holds them
    likedFlags,       \* localStorage of the browser: ids p with liked_<p> set
    likeCalls,        \* per project: projectService.likeProject calls made
    likedIn,          \* <<tab, p>>: handleLike in tab incremented the likes of p
    likePending,      \* per project: likeProject calls in flight
    remoteLikes,      \* per project: likes counted by the remote service
    \* what the last step showed
    alert,            \* text of the blocking alert() of the last step, <<>> if none
    logged,           \* text of the console.error of the last step, <<>> if none
    \* AdminDashboard: read tracking
    markCalls,        \* mark-read calls in flight
    markIssued,       \* mark-read calls the last step issued
    serverMsgRead,    \* ids of the contact messages the service holds as read
    serverLogRead,    \* ids of the chat log entries the service holds as read
    \* ProjectDetail of tab A: comments
    project,          \* useState<Project>(initialProject): its likes and comments
    comments,         \* useState<Comment[]>(initialProject.comments || [])
    newCommentAuthor, \* useState('')
    newCommentText,   \* useState('')
    submitStatus,     \* useState('idle'): idle / loading / success
    commentCalls,     \* addComment calls in flight, in the order they were made
    statusTimers,     \* pending setTimeout(() => setSubmitStatus('idle'), 3000)
    submits,          \* addComment calls made
    remoteComments,   \* the comments of the shown project as the service holds them
    \* AdminDashboard: client logos and message deletion
    logos,                 \* useState<ClientLogo[]>([]): the ids of the logos
    newLogoUrl,            \* useState('')
    isAddingLogo,          \* useState(false)
    logoToDelete,          \* useState<string | null>(null), 0 for null
    selectedLogoIds,       \* useState<Set<string>>(new Set())
    isBulkDeletingLogos,   \* useState(false)
    showBulkDeleteConfirm, \* useState(false)
    messageToDelete,       \* useState<string | null>(null), 0 for null
    mutationCalls,         \* logo and message mutation calls in flight, oldest first
    mutations,             \* logo and message mutation calls made
    \* AdminDashboard: profile save and credential update
    saveProfileStatus,     \* useState('idle'): idle / saving / success / error
    credStatus,            \* useState('idle'): idle / saving / success / error
    adminEmail,            \* useState('')
    adminPassword,         \* useState('')
    settingsCalls,         \* per operation: calls in flight
    settingsTimers,        \* per operation: pending setTimeout(..., 3000)
    profileData,           \* useState<ProfileData>: the bio typed into the form
    profileSent,           \* the profileData given to the updateProfile call in flight
    remoteProfile,         \* the bio as the service holds it
    \* AdminDashboard: polling
    polls,                 \* per interval callback that can be running: its progress
    serverMessages,        \* the contact messages as the service holds them
    serverChatLogs,        \* the chat logs as the service holds them
    arrived,               \* the getMessages / getChatLogs response that arrived last
    lastDone,              \* what the callback that completed last had fetched
    activeTab,             \* useState('overview')
    \* ProjectDetail of tab A: comments ribbon
    containerScrollLeft,   \* scrollContainerRef.current.scrollLeft
    scrollWidth,           \* scrollContainerRef.current.scrollWidth
    clientWidth,           \* scrollContainerRef.current.clientWidth
    ribbonDragging,        \* useState(false): isDragging of ProjectDetail
    startX,                \* useState(0)
    scrollLeft,            \* useState(0)
    isHovering,            \* useState(false)
    hoverTimers,           \* pending setTimeout(() => setIsHovering(false), 1000)
    pointerOver,           \* the mouse pointer is over the ribbon
    buttonDown,            \* the mouse button is held since a mousedown on the ribbon
    touching,              \* a finger is on the ribbon
    frame,                 \* the animation frame the last step ran, if it ran one
    \* TreatModal
    isEnabled,             \* prop isEnabled
    interval,              \* prop interval, in seconds
    maxShowCount,          \* prop maxShowCount
    isVisible,             \* useState(false)
    showCount,             \* useState(0)
    treatTimer,            \* seconds left of the pending setTimeout, <<>> if none
    sinceHidden,           \* seconds for which the modal has been hidden, up to interval
    \* AdminLogin
    loginVariant,          \* which of the two AdminLogin components is mounted
    email,                 \* useState('')
    password,              \* useState('')
    error,                 \* useState('')
    loading,               \* useState(false)
    loginCalls,            \* handleLogin calls awaiting projectService.login or the delay
    onLoginFor,            \* the credentials of the calls that invoked onLogin
    loginSettled,          \* how the call the last step completed had settled, "" if none
    \* BackToTop: ChatWidget
    isOpen,            \* useState(false)
    widgetMessages,    \* useState<ChatMessage[]>([greeting]): the widget's `messages`
    input,             \* useState('')
    isLoading,         \* useState(false)
    webhookCalls,      \* handleSend calls awaiting the webhook
    savedInteractions, \* roles passed to projectService.saveChatInteraction
    sends              \* handleSend calls that passed the guard

reorderVars == <<projects, localProjects, isDragging, reorderArg, callsInGesture,
                 dragStartSet, persist, propGotOrder>>

inboxVars == <<messages, chatLogs, inboxTab, dateFilter, inboxPage, resetFrom>>

likeVars == <<detail, likes, isLiked, store, likedFlags, likeCalls, likedIn,
              likePending, remoteLikes>>

shownVars == <<alert, logged>>

markVars == <<markCalls, markIssued, serverMsgRead, serverLogRead>>

commentVars == <<project, comments, newCommentAuthor, newCommentText, submitStatus,
                 commentCalls, statusTimers, submits, remoteComments>>

logoVars == <<logos, newLogoUrl, isAddingLogo, logoToDelete, selectedLogoIds,
              isBulkDeletingLogos, showBulkDeleteConfirm, messageToDelete,
              mutationCalls, mutations>>

settingsVars == <<saveProfileStatus, credStatus, adminEmail, adminPassword,
                  settingsCalls, settingsTimers, profileData, profileSent,
                  remoteProfile>>

pollVars == <<polls, serverMessages, serverChatLogs, arrived, lastDone, activeTab>>

requestVars == <<shownVars, markVars, commentVars, logoVars, settingsVars, pollVars>>

carouselVars == <<containerScrollLeft, scrollWidth, clientWidth, ribbonDragging, startX,
                  scrollLeft, isHovering, hoverTimers, pointerOver, buttonDown, touching,
                  frame>>

treatVars == <<isEnabled, interval, maxShowCount, isVisible, showCount, treatTimer,
               sinceHidden>>

loginVars == <<loginVariant, email, password, error, loading, loginCalls, onLoginFor,
               loginSettled>>

chatVars == <<isOpen, widgetMessages, input, isLoading, webhookCalls,
              savedInteractions, sends>>

siteVars == <<carouselVars, treatVars, loginVars, chatVars>>

vars == <<reorderVars, inboxVars, likeVars, requestVars, siteVars>>

\* ------------------------------------------------------------- projects
Range(s) == {s[i] : i \in 1..Len(s)}

ProjectIds == 1..NumProjects

Project == [id : ProjectIds, likes : 0..MaxLikes]

RECURSIVE SumLikes(_)
SumLikes(s) == IF s = <<>> THEN 0 ELSE Head(s).likes + SumLikes(Tail(s))

\* JSON.stringify of a Project[]: per element its keys and values in order.
StringifyProject(p) == <<"{", "id", p.id, "likes", p.likes, "}">>

RECURSIVE JSONstringify(_)
JSONstringify(s) ==
    IF s = <<>> THEN <<"]">>
    ELSE StringifyProject(Head(s)) \o JSONstringify(Tail(s))

SwapAdjacent(s, i) ==
    [k \in 1..Len(s) |-> IF k = i THEN s[i + 1] ELSE IF k = i + 1 THEN s[i] ELSE s[k]]

IsPermutationOf(s, S) == Len(s) = Cardinality(S) /\ Range(s) = S

\* ------------------------------------------------ project detail: likes
\* The tabs of one browser that show the site; they share its localStorage.
Views == {"tabA", "tabB"}

\* useEffect(..., [project.id]): localStorage.getItem(`liked_${project.id}`)
LikedFlagEffect(p, flags, liked) == IF p \in flags THEN TRUE ELSE liked

\* onProjectUpdate(updatedProject): the caller stores the project it is given,
\* which comes back as the project prop.
CallerOnProjectUpdate(held, p, newLikes) == [held EXCEPT ![p] = newLikes]

\* Mount of ProjectDetail with project p, with its effects.
openProject(v) ==
    /\ detail[v] = 0
    /\ \E p \in ProjectIds :
          /\ detail' = [detail EXCEPT ![v] = p]
          /\ likes' = [likes EXCEPT ![v] = store[v][p]]
          /\ isLiked' = [isLiked EXCEPT ![v] = LikedFlagEffect(p, likedFlags, FALSE)]
    /\ UNCHANGED <<store, likedFlags, likeCalls, likedIn, likePending, remoteLikes>>

\* onBack: the caller unmounts ProjectDetail.
onBack(v) ==
    /\ detail[v] # 0
    /\ detail' = [detail EXCEPT ![v] = 0]
    /\ likes' = [likes EXCEPT ![v] = 0]
    /\ isLiked' = [isLiked EXCEPT ![v] = FALSE]
    /\ UNCHANGED <<store, likedFlags, likeCalls, likedIn, likePending, remoteLikes>>

handleLike(v) ==
    /\ detail[v] # 0
    /\ IF isLiked[v]
       THEN UNCHANGED likeVars
       ELSE LET p == detail[v]
                newLikes == likes[v] + 1
                held == CallerOnProjectUpdate(store[v], p, newLikes)
            IN  /\ isLiked' = [isLiked EXCEPT ![v] = TRUE]
                /\ likedFlags' = likedFlags \cup {p}
                /\ store' = [store EXCEPT ![v] = held]
                /\ likes' = [likes EXCEPT ![v] = held[p]]
                /\ likeCalls' = [likeCalls EXCEPT ![p] = @ + 1]
                /\ likePending' = [likePending EXCEPT ![p] = @ + 1]
                /\ likedIn' = likedIn \cup {<<v, p>>}
                /\ UNCHANGED <<detail, remoteLikes>>

\* await projectService.likeProject(project.id) settles; its result is not used.
likeSucceeds ==
    \E p \in ProjectIds :
       /\ likePending[p] > 0
       /\ likePending' = [likePending EXCEPT ![p] = @ - 1]
       /\ remoteLikes' = [remoteLikes EXCEPT ![p] = @ + 1]
       /\ UNCHANGED <<detail, likes, isLiked, store, likedFlags, likeCalls, likedIn>>

likeFails ==
    \E p \in ProjectIds :
       /\ likePending[p] > 0
       /\ likePending' = [likePending EXCEPT ![p] = @ - 1]
       /\ UNCHANGED <<detail, likes, isLiked, store, likedFlags, likeCalls, likedIn,
                      remoteLikes>>

InitLikeIdle ==
    /\ detail = [v \in Views |-> 0]
    /\ likes = [v \in Views |-> 0]
    /\ isLiked = [v \in Views |-> FALSE]
    /\ store = [v \in Views |-> [p \in ProjectIds |-> 0]]
    /\ likedFlags = {}
    /\ likeCalls = [p \in ProjectIds |-> 0]
    /\ likedIn = {}
    /\ likePending = [p \in ProjectIds |-> 0]
    /\ remoteLikes = [p \in ProjectIds |-> 0]

InitShownIdle == alert = <<>> /\ logged = <<>>

InitMarkIdle ==
    /\ markCalls = {}
    /\ markIssued = {}
    /\ serverMsgRead = {}
    /\ serverLogRead = {}

InitCommentIdle ==
    /\ project = [likes |-> 0, comments |-> <<>>]
    /\ comments = <<>>
    /\ newCommentAuthor = ""
    /\ newCommentText = ""
    /\ submitStatus = "idle"
    /\ commentCalls = <<>>
    /\ statusTimers = 0
    /\ submits = 0
    /\ remoteComments = <<>>

InitLogoIdle ==
    /\ logos = <<>>
    /\ newLogoUrl = ""
    /\ isAddingLogo = FALSE
    /\ logoToDelete = 0
    /\ selectedLogoIds = {}
    /\ isBulkDeletingLogos = FALSE
    /\ showBulkDeleteConfirm = FALSE
    /\ messageToDelete = 0
    /\ mutationCalls = <<>>
    /\ mutations = 0

SettingsOps == {"updateProfile", "updateAdminCredentials"}

InitSettings ==
    /\ saveProfileStatus = "idle"
    /\ credStatus = "idle"
    /\ adminEmail = ""
    /\ adminPassword = ""
    /\ settingsCalls = [op \in SettingsOps |-> 0]
    /\ settingsTimers = [op \in SettingsOps |-> 0]
    /\ profileData = "bio"
    /\ profileSent = <<>>
    /\ remoteProfile = "bio"

\* Two callbacks of the 4-second interval can be running at a time.
Polls == {"first", "second"}

IdlePoll == [pc |-> "idle", msgs |-> <<>>, logs |-> <<>>, changed |-> FALSE,
             tab |-> "", pData |-> ""]

InitPollIdle ==
    /\ polls = [p \in Polls |-> IdlePoll]
    /\ serverMessages = <<>>
    /\ serverChatLogs = <<>>
    /\ arrived = [msgs |-> <<>>, logs |-> <<>>]
    /\ lastDone = <<>>

Greeting == [role |-> "model", text |-> "Hi! I am Nobel's AI assistant."]

NoFrame == [ran |-> FALSE, before |-> 0, after |-> 0]

\* No ribbon is rendered: the view shows no comment.
InitCarouselIdle ==
    /\ frame = NoFrame
    /\ containerScrollLeft = 0
    /\ scrollWidth = 0
    /\ clientWidth = 0
    /\ ribbonDragging = FALSE
    /\ startX = 0
    /\ scrollLeft = 0
    /\ isHovering = FALSE
    /\ hoverTimers = 0
    /\ pointerOver = FALSE
    /\ buttonDown = FALSE
    /\ touching = FALSE

\* No TreatModal is mounted.
InitTreatIdle ==
    /\ isEnabled = FALSE
    /\ interval = 1
    /\ maxShowCount = 1
    /\ isVisible = FALSE
    /\ showCount = 0
    /\ treatTimer = <<>>
    /\ sinceHidden = 0

\* The login form of a variant as mounted.
InitLoginForm(variant) ==
    /\ loginVariant = variant
    /\ email = ""
    /\ password = ""
    /\ error = ""
    /\ loading = FALSE
    /\ loginCalls = <<>>
    /\ onLoginFor = <<>>
    /\ loginSettled = ""

\* The chat widget as mounted.
InitChatIdle ==
    /\ isOpen = FALSE
    /\ widgetMessages = <<Greeting>>
    /\ input = ""
    /\ isLoading = FALSE
    /\ webhookCalls = <<>>
    /\ savedInteractions = <<>>
    /\ sends = 0

InitSiteIdle ==
    InitCarouselIdle /\ InitTreatIdle /\ InitLoginForm("paused") /\ InitChatIdle

\* The tabs of the dashboard that matter to polling: the one shown first and
\* the one with the profile form.
Tabs == {"overview", "profile"}

\* The dashboard showing tab, with no request made yet.
InitRequestOn(tab) ==
    /\ InitShownIdle
    /\ InitMarkIdle
    /\ InitCommentIdle
    /\ InitLogoIdle
    /\ InitSettings
    /\ InitPollIdle
    /\ activeTab = tab

InitRequestIdle == InitRequestOn("overview") /\ InitSiteIdle

\* ------------------------------------------- reorderable list controller
\* useEffect(..., [projects, isDragging]): the value of localProjects after
\* the effect has run in a render with these values.
SyncEffect_NoDragGuard(dragging, prop, local) ==
    IF JSONstringify(prop) # JSONstringify(local) THEN prop ELSE local

SyncEffect_LengthOnly(dragging, prop, local) ==
    IF dragging THEN local
    ELSE IF Len(prop) # Len(local) THEN prop ELSE local

SyncEffect(dragging, prop, local) ==
    IF dragging THEN local
    ELSE IF JSONstringify(prop) # JSONstringify(local) THEN prop ELSE local

\* The projects prop changes while the dashboard is mounted: a visitor liked
\* a project, or the order was changed through another channel.
PropChange(newProjects) ==
    /\ newProjects # projects
    /\ projects' = newProjects
    /\ localProjects' = SyncEffect(isDragging, newProjects, localProjects)
    /\ propGotOrder' = (propGotOrder \/ (persist # "none" /\ newProjects = reorderArg))
    /\ UNCHANGED <<isDragging, reorderArg, callsInGesture, dragStartSet, persist>>

ExternalLike ==
    /\ SumLikes(projects) < MaxLikes
    /\ \E i \in 1..Len(projects) :
          PropChange([projects EXCEPT ![i].likes = @ + 1])

ExternalReorder ==
    \E i \in 1..(Len(projects) - 1) : PropChange(SwapAdjacent(projects, i))

\* A new gesture: the record of the previous gesture's call is dropped; if that
\* call settles later, the prop change it causes is one of the prop changes above.
handleDragStart ==
    /\ ~isDragging
    /\ isDragging' = TRUE
    /\ localProjects' = SyncEffect(TRUE, projects, localProjects)
    /\ dragStartSet' = Range(localProjects)
    /\ callsInGesture' = 0
    /\ reorderArg' = <<>>
    /\ persist' = "none"
    /\ propGotOrder' = FALSE
    /\ UNCHANGED projects

\* Reorder.Group onReorder={setLocalProjects}: the dragged item passes a neighbour.
onReorder ==
    /\ isDragging
    /\ \E i \in 1..(Len(localProjects) - 1) :
          localProjects' = SwapAdjacent(localProjects, i)
    /\ UNCHANGED <<projects, isDragging, reorderArg, callsInGesture, dragStartSet,
                   persist, propGotOrder>>

\* What the caller does with the prop inside onReorderProjects(arg), before the
\* handler returns: it sets the prop to arg (optimistic) or leaves it alone.
CallerOnReorder(optimistic, arg, prop) == IF optimistic THEN arg ELSE prop

handleDragEnd_CallsWithProp ==
    /\ isDragging
    /\ \E optimistic \in BOOLEAN :
          LET newProp == CallerOnReorder(optimistic, projects, projects) IN
          /\ isDragging' = FALSE
          /\ reorderArg' = projects
          /\ callsInGesture' = callsInGesture + 1
          /\ persist' = "inflight"
          /\ projects' = newProp
          /\ propGotOrder' = (newProp = projects)
          /\ localProjects' = SyncEffect(FALSE, newProp, localProjects)
    /\ UNCHANGED dragStartSet

handleDragEnd_NoEffectRerun ==
    /\ isDragging
    /\ \E optimistic \in BOOLEAN :
          LET newProp == CallerOnReorder(optimistic, localProjects, projects) IN
          /\ isDragging' = FALSE
          /\ reorderArg' = localProjects
          /\ callsInGesture' = callsInGesture + 1
          /\ persist' = "inflight"
          /\ projects' = newProp
          /\ propGotOrder' = (newProp = localProjects)
          /\ localProjects' = IF newProp # projects
                               THEN SyncEffect(FALSE, newProp, localProjects)
                               ELSE localProjects
    /\ UNCHANGED dragStartSet

handleDragEnd ==
    /\ isDragging
    /\ \E optimistic \in BOOLEAN :
          LET newProp == CallerOnReorder(optimistic, localProjects, projects) IN
          /\ isDragging' = FALSE
          /\ reorderArg' = localProjects
          /\ callsInGesture' = callsInGesture + 1
          /\ persist' = "inflight"
          /\ projects' = newProp
          /\ propGotOrder' = (newProp = localProjects)
          /\ localProjects' = SyncEffect(FALSE, newProp, localProjects)
    /\ UNCHANGED dragStartSet

\* The caller's remote reorder call settles.
PersistOk ==
    /\ persist = "inflight"
    /\ persist' = "ok"
    /\ projects' = reorderArg
    /\ propGotOrder' = TRUE
    /\ localProjects' = SyncEffect(isDragging, reorderArg, localProjects)
    /\ UNCHANGED <<isDragging, reorderArg, callsInGesture, dragStartSet>>

PersistFail ==
    /\ persist = "inflight"
    /\ persist' = "failed"
    /\ UNCHANGED <<projects, localProjects, isDragging, reorderArg, callsInGesture,
                   dragStartSet, propGotOrder>>

InitialProjects == [i \in ProjectIds |-> [id |-> i, likes |-> 0]]

InitInboxIdle ==
    /\ messages = <<>>
    /\ chatLogs = <<>>
    /\ inboxTab = "contact"
    /\ dateFilter = 0
    /\ inboxPage = 1
    /\ resetFrom = 0

InitReorder ==
    /\ InitInboxIdle
    /\ InitLikeIdle
    /\ InitRequestIdle
    /\ projects = InitialProjects
    /\ localProjects = projects
    /\ isDragging = FALSE
    /\ reorderArg = <<>>
    /\ callsInGesture = 0
    /\ dragStartSet = {}
    /\ persist = "none"
    /\ propGotOrder = FALSE

NextReorder ==
    \/ ExternalLike /\ UNCHANGED <<inboxVars, likeVars, requestVars, siteVars>>
    \/ ExternalReorder /\ UNCHANGED <<inboxVars, likeVars, requestVars, siteVars>>
    \/ handleDragStart /\ UNCHANGED <<inboxVars, likeVars, requestVars, siteVars>>
    \/ onReorder /\ UNCHANGED <<inboxVars, likeVars, requestVars, siteVars>>
    \/ handleDragEnd /\ UNCHANGED <<inboxVars, likeVars, requestVars, siteVars>>
    \/ PersistOk /\ UNCHANGED <<inboxVars, likeVars, requestVars, siteVars>>
    \/ PersistFail /\ UNCHANGED <<inboxVars, likeVars, requestVars, siteVars>>

SpecReorder == InitReorder /\ [][NextReorder]_vars

\* ------------------------------------------------------- inbox: chat logs
Roles == {"user", "model"}

ChatLog(id, role, t) == [id |-> id, role |-> role, createdAt |-> t, read |-> FALSE]

\* A poll (setChatLogs(logs)) brings a list with one more entry; the server
\* gives no promise on the order of createdAt within the list.
ReceiveChatLog ==
    /\ Len(chatLogs) < MaxLogs
    /\ \E role \in Roles, t \in 1..MaxTime :
          chatLogs' = Append(chatLogs, ChatLog(Len(chatLogs) + 1, role, t))
    /\ UNCHANGED <<messages, inboxTab, dateFilter, inboxPage, resetFrom>>

\* [...chatLogs].sort((a, b) => time(a) - time(b)): Array.prototype.sort is
\* stable, entries with equal createdAt keep their order.
RECURSIVE InsertAscending(_, _)
InsertAscending(x, s) ==
    IF s = <<>> THEN <<x>>
    ELSE IF Head(s).createdAt > x.createdAt THEN <<x>> \o s
    ELSE <<Head(s)>> \o InsertAscending(x, Tail(s))

SortAscending_Unsorted(s) == s

RECURSIVE SortAscending(_)
SortAscending(s) ==
    IF s = <<>> THEN <<>>
    ELSE InsertAscending(s[Len(s)], SortAscending(SubSeq(s, 1, Len(s) - 1)))

\* currentPair: <<>> is null, <<r>> the object r; a missing userMsg / modelMsg
\* is <<>>, a present one <<log>>.
NoPair == <<>>

OpenPair(log) == <<[userMsg |-> <<log>>, modelMsg |-> <<>>]>>

\* currentPair && currentPair.userMsg && !currentPair.modelMsg
IsOpen(cur) == cur # <<>> /\ cur[1].userMsg # <<>> /\ cur[1].modelMsg = <<>>

UserOnlyPair(u) ==
    [id |-> u.id, userMsg |-> <<u>>, modelMsg |-> <<>>,
     createdAt |-> u.createdAt, read |-> u.read]

FullPair(u, m) ==
    [id |-> u.id, userMsg |-> <<u>>, modelMsg |-> <<m>>,
     createdAt |-> u.createdAt, read |-> u.read]

ModelOnlyPair(m) ==
    [id |-> m.id, userMsg |-> <<>>, modelMsg |-> <<m>>,
     createdAt |-> m.createdAt, read |-> TRUE]

PairUser_NoFlush(st, log) == [pairs |-> st.pairs, cur |-> OpenPair(log)]

PairUser(st, log) ==
    [pairs |-> IF IsOpen(st.cur)
               THEN Append(st.pairs, UserOnlyPair(st.cur[1].userMsg[1]))
               ELSE st.pairs,
     cur |-> OpenPair(log)]

PairModel_DropsUnpaired(st, log) ==
    IF IsOpen(st.cur)
    THEN [pairs |-> Append(st.pairs, FullPair(st.cur[1].userMsg[1], log)),
          cur |-> NoPair]
    ELSE st

PairModel(st, log) ==
    IF IsOpen(st.cur)
    THEN [pairs |-> Append(st.pairs, FullPair(st.cur[1].userMsg[1], log)),
          cur |-> NoPair]
    ELSE [pairs |-> Append(st.pairs, ModelOnlyPair(log)), cur |-> st.cur]

PairStep(st, log) ==
    IF log.role = "user" THEN PairUser(st, log)
    ELSE IF log.role = "model" THEN PairModel(st, log)
    ELSE st

RECURSIVE PairFold(_, _)
PairFold(st, s) ==
    IF s = <<>> THEN st ELSE PairFold(PairStep(st, Head(s)), Tail(s))

PairFlush_DropsOpenPair(st) == st.pairs

\* if (currentPair) pairs.push(...): the pair still open after the last entry.
PairFlush(st) ==
    IF st.cur # <<>>
    THEN Append(st.pairs,
                [id |-> st.cur[1].userMsg[1].id,
                 userMsg |-> st.cur[1].userMsg,
                 modelMsg |-> st.cur[1].modelMsg,
                 createdAt |-> st.cur[1].userMsg[1].createdAt,
                 read |-> st.cur[1].userMsg[1].read])
    ELSE st.pairs

pairedChatLogsOf(logs) ==
    PairFlush(PairFold([pairs |-> <<>>, cur |-> NoPair], SortAscending(logs)))

pairedChatLogs == pairedChatLogsOf(chatLogs)

InitReorderIdle ==
    /\ projects = <<>>
    /\ localProjects = <<>>
    /\ isDragging = FALSE
    /\ reorderArg = <<>>
    /\ callsInGesture = 0
    /\ dragStartSet = {}
    /\ persist = "none"
    /\ propGotOrder = FALSE

InitPairing == InitReorderIdle /\ InitInboxIdle /\ InitLikeIdle /\ InitRequestIdle

NextPairing == ReceiveChatLog /\ UNCHANGED <<reorderVars, likeVars, requestVars, siteVars>>

SpecPairing == InitPairing /\ [][NextPairing]_vars

\* ---------------------------------------------- inbox: filter and pages
ContactMessage(id, t) == [id |-> id, createdAt |-> t, read |-> FALSE]

\* new Date(item.createdAt).toISOString().split('T')[0], as the number of the day
DayOf(t) == (t + TicksPerDay - 1) \div TicksPerDay

Days == 1..(DayOf(MaxTime) + 1)

\* data.sort((a, b) => time(b) - time(a)): newest first, stable.
RECURSIVE InsertDescending(_, _)
InsertDescending(x, s) ==
    IF s = <<>> THEN <<x>>
    ELSE IF Head(s).createdAt < x.createdAt THEN <<x>> \o s
    ELSE <<Head(s)>> \o InsertDescending(x, Tail(s))

RECURSIVE SortDescending(_)
SortDescending(s) ==
    IF s = <<>> THEN <<>>
    ELSE InsertDescending(s[Len(s)], SortDescending(SubSeq(s, 1, Len(s) - 1)))

\* The memo without its filter step.
processedInboxDataOf_Unfiltered(tab, filter, msgs, pairs) ==
    SortDescending(IF tab = "contact" THEN msgs ELSE pairs)

processedInboxDataOf(tab, filter, msgs, pairs) ==
    LET data == IF tab = "contact" THEN msgs ELSE pairs
        OnDate(item) == DayOf(item.createdAt) = filter
    IN  SortDescending(IF filter # 0 THEN SelectSeq(data, OnDate) ELSE data)

processedInboxData ==
    processedInboxDataOf(inboxTab, dateFilter, messages, pairedChatLogs)

\* Array.prototype.slice(start, end) with 0 <= start <= end
Slice(s, start, end) ==
    SubSeq(s, start + 1, IF end < Len(s) THEN end ELSE Len(s))

PageOf_StartsAtPage(data, page) ==
    Slice(data, page * ITEMS_PER_PAGE, page * ITEMS_PER_PAGE + ITEMS_PER_PAGE)

PageOf(data, page) ==
    LET start == (page - 1) * ITEMS_PER_PAGE
        end == start + ITEMS_PER_PAGE
    IN  Slice(data, start, end)

paginatedInboxData == PageOf(processedInboxData, inboxPage)

\* Math.ceil(n / d) for n >= 0, d > 0
Ceil(n, d) == IF n % d = 0 THEN n \div d ELSE n \div d + 1

\* Math.ceil(processedInboxData.length / ITEMS_PER_PAGE) || 1
TotalPagesOf(n) == LET c == Ceil(n, ITEMS_PER_PAGE) IN IF c = 0 THEN 1 ELSE c

totalInboxPages == TotalPagesOf(Len(processedInboxData))

\* useEffect(() => setInboxPage(1), [inboxTab, dateFilter]): the page after a
\* render in which the tab and the filter have these new values.
PageResetEffect_OnTabOnly(tab, filter, page) ==
    IF tab # inboxTab THEN 1 ELSE page

PageResetEffect(tab, filter, page) ==
    IF tab # inboxTab \/ filter # dateFilter THEN 1 ELSE page

setInboxTab ==
    /\ \E tab \in {"contact", "chat"} :
          /\ inboxTab' = tab
          /\ inboxPage' = PageResetEffect(tab, dateFilter, inboxPage)
          /\ resetFrom' = IF tab # inboxTab THEN inboxPage ELSE resetFrom
    /\ UNCHANGED <<messages, chatLogs, dateFilter>>

handleDateClick ==
    /\ \E d \in Days :
          /\ dateFilter' = d
          /\ inboxPage' = PageResetEffect(inboxTab, d, inboxPage)
          /\ resetFrom' = IF d # dateFilter THEN inboxPage ELSE resetFrom
    /\ UNCHANGED <<messages, chatLogs, inboxTab>>

clearDateFilter ==
    /\ dateFilter # 0
    /\ dateFilter' = 0
    /\ inboxPage' = PageResetEffect(inboxTab, 0, inboxPage)
    /\ resetFrom' = inboxPage
    /\ UNCHANGED <<messages, chatLogs, inboxTab>>

Max(a, b) == IF a > b THEN a ELSE b

Min(a, b) == IF a < b THEN a ELSE b

handlePrevPage ==
    /\ totalInboxPages > 1
    /\ inboxPage # 1
    /\ inboxPage' = Max(1, inboxPage - 1)
    /\ UNCHANGED <<messages, chatLogs, inboxTab, dateFilter, resetFrom>>

handleNextPage ==
    /\ totalInboxPages > 1
    /\ inboxPage # totalInboxPages
    /\ inboxPage' = Min(totalInboxPages, inboxPage + 1)
    /\ UNCHANGED <<messages, chatLogs, inboxTab, dateFilter, resetFrom>>

\* A poll (setMessages(msgs)) brings a list with one more message, stamped by the
\* server on arrival.
ReceiveMessage ==
    /\ Len(messages) < MaxMessages
    /\ \E t \in 1..MaxTime :
          /\ messages # <<>> => t >= messages[Len(messages)].createdAt
          /\ messages' = Append(messages, ContactMessage(Len(messages) + 1, t))
    /\ UNCHANGED <<chatLogs, inboxTab, dateFilter, inboxPage, resetFrom>>

\* The chat logs the inbox starts with: an answered and an unanswered question.
InitialChatLogs ==
    <<ChatLog(1, "user", 1), ChatLog(2, "model", 1), ChatLog(3, "user", MaxTime)>>

InitInbox ==
    /\ InitReorderIdle
    /\ InitLikeIdle
    /\ InitRequestIdle
    /\ messages = <<>>
    /\ chatLogs = InitialChatLogs
    /\ inboxTab = "contact"
    /\ dateFilter = 0
    /\ inboxPage = 1
    /\ resetFrom = 0

NextInbox ==
    \/ setInboxTab /\ UNCHANGED <<reorderVars, likeVars, requestVars, siteVars>>
    \/ handleDateClick /\ UNCHANGED <<reorderVars, likeVars, requestVars, siteVars>>
    \/ clearDateFilter /\ UNCHANGED <<reorderVars, likeVars, requestVars, siteVars>>
    \/ handlePrevPage /\ UNCHANGED <<reorderVars, likeVars, requestVars, siteVars>>
    \/ handleNextPage /\ UNCHANGED <<reorderVars, likeVars, requestVars, siteVars>>
    \/ ReceiveMessage /\ UNCHANGED <<reorderVars, likeVars, requestVars, siteVars>>

SpecInbox == InitInbox /\ [][NextInbox]_vars

InitLike == InitReorderIdle /\ InitInboxIdle /\ InitLikeIdle /\ InitRequestIdle

NextLike ==
    \/ (\E v \in Views : openProject(v)) /\ UNCHANGED <<reorderVars, inboxVars, requestVars, siteVars>>
    \/ (\E v \in Views : onBack(v)) /\ UNCHANGED <<reorderVars, inboxVars, requestVars, siteVars>>
    \/ (\E v \in Views : handleLike(v)) /\ UNCHANGED <<reorderVars, inboxVars, requestVars, siteVars>>
    \/ likeSucceeds /\ UNCHANGED <<reorderVars, inboxVars, requestVars, siteVars>>
    \/ likeFails /\ UNCHANGED <<reorderVars, inboxVars, requestVars, siteVars>>

SpecLike == InitLike /\ [][NextLike]_vars

\* --------------------------------------------------- inbox: read tracking
MarkCall(op, id) == [op |-> op, id |-> id]

\* prev.map(m => m.id === id ? { ...m, read: true } : m)
SetRead(s, id) ==
    [j \in 1..Len(s) |-> IF s[j].id = id THEN [s[j] EXCEPT !.read = TRUE] ELSE s[j]]

\* prev.map(m => ({ ...m, read: true }))
SetAllRead(s) == [j \in 1..Len(s) |-> [s[j] EXCEPT !.read = TRUE]]

Ids(s) == {s[j].id : j \in 1..Len(s)}

unreadMessagesCount == Cardinality({j \in 1..Len(messages) : ~messages[j].read})

unreadChatLogsCount ==
    Cardinality({j \in 1..Len(chatLogs) :
                    ~chatLogs[j].read /\ chatLogs[j].role = "user"})

totalUnreadInbox == unreadMessagesCount + unreadChatLogsCount

\* A click on the contact message at position i of the list.
handleMarkMessageRead(i) ==
    LET msg == messages[i] IN
    /\ alert' = <<>>
    /\ logged' = <<>>
    /\ IF msg.read
       THEN /\ markIssued' = {}
            /\ UNCHANGED <<messages, markCalls>>
       ELSE /\ messages' = SetRead(messages, msg.id)
            /\ markIssued' = {MarkCall("markMessageRead", msg.id)}
            /\ markCalls' = markCalls \cup markIssued'
    /\ UNCHANGED <<chatLogs, serverMsgRead, serverLogRead>>

\* A click on the chat pair at position k of pairedChatLogs.
handleMarkChatRead(k) ==
    LET chatPair == pairedChatLogs[k] IN
    /\ alert' = <<>>
    /\ logged' = <<>>
    /\ IF chatPair.read \/ chatPair.userMsg = <<>>
       THEN /\ markIssued' = {}
            /\ UNCHANGED <<chatLogs, markCalls>>
       ELSE /\ chatLogs' = SetRead(chatLogs, chatPair.userMsg[1].id)
            /\ markIssued' = {MarkCall("markChatLogRead", chatPair.userMsg[1].id)}
            /\ markCalls' = markCalls \cup markIssued'
    /\ UNCHANGED <<messages, serverMsgRead, serverLogRead>>

\* The "mark all read" button, rendered while totalUnreadInbox > 0. The handler
\* awaits Promise.all of the two calls: one entry of markCalls.
handleMarkAllRead ==
    /\ totalUnreadInbox > 0
    /\ alert' = <<>>
    /\ logged' = <<>>
    /\ messages' = SetAllRead(messages)
    /\ chatLogs' = SetAllRead(chatLogs)
    /\ markIssued' = {MarkCall("markAllMessagesRead", 0),
                      MarkCall("markAllChatLogsRead", 0)}
    /\ markCalls' = markCalls \cup {MarkCall("markAll", 0)}
    /\ UNCHANGED <<serverMsgRead, serverLogRead>>

\* What the service holds after the parts `done` of call c have been carried out.
ServerAfterMark(c, done) ==
    [msgs |-> IF c.op = "markMessageRead" THEN serverMsgRead \cup {c.id}
              ELSE IF c.op = "markAll" /\ "messages" \in done THEN Ids(messages)
              ELSE serverMsgRead,
     logs |-> IF c.op = "markChatLogRead" THEN serverLogRead \cup {c.id}
              ELSE IF c.op = "markAll" /\ "chatLogs" \in done THEN Ids(chatLogs)
              ELSE serverLogRead]

\* The awaited call resolves.
markSucceeds(c) ==
    /\ c \in markCalls
    /\ markCalls' = markCalls \ {c}
    /\ markIssued' = {}
    /\ serverMsgRead' = ServerAfterMark(c, {"messages", "chatLogs"}).msgs
    /\ serverLogRead' = ServerAfterMark(c, {"messages", "chatLogs"}).logs
    /\ alert' = <<>>
    /\ logged' = <<>>
    /\ UNCHANGED <<messages, chatLogs>>

MarkFailureText(c) ==
    IF c.op = "markMessageRead" THEN "Failed to mark message read"
    ELSE IF c.op = "markChatLogRead" THEN "Failed to mark chat log read"
    ELSE "Failed to mark all read"

\* The catch block with a rollback of the flag the handler had set.
markFails_RollsBack(c) ==
    /\ c \in markCalls
    /\ markCalls' = markCalls \ {c}
    /\ markIssued' = {}
    /\ messages' = [j \in 1..Len(messages) |->
                       IF c.op = "markMessageRead" /\ messages[j].id = c.id
                       THEN [messages[j] EXCEPT !.read = FALSE] ELSE messages[j]]
    /\ alert' = <<>>
    /\ logged' = <<MarkFailureText(c)>>
    /\ UNCHANGED <<chatLogs, serverMsgRead, serverLogRead>>

\* The awaited call rejects: the catch block. Of Promise.all one part may have
\* been carried out.
markFails(c) ==
    /\ c \in markCalls
    /\ markCalls' = markCalls \ {c}
    /\ markIssued' = {}
    /\ \E done \in {{}, {"messages"}, {"chatLogs"}} :
          /\ c.op # "markAll" => done = {}
          /\ serverMsgRead' = (IF done = {} THEN serverMsgRead
                               ELSE ServerAfterMark(c, done).msgs)
          /\ serverLogRead' = (IF done = {} THEN serverLogRead
                               ELSE ServerAfterMark(c, done).logs)
    /\ alert' = <<>>
    /\ logged' = <<MarkFailureText(c)>>
    /\ UNCHANGED <<messages, chatLogs>>

\* The poll's setMessages(msgs): the list as the service holds it.
PollMessages ==
    /\ messages' = [j \in 1..Len(messages) |->
                       [messages[j] EXCEPT !.read = (messages[j].id \in serverMsgRead)]]
    /\ markIssued' = {}
    /\ alert' = <<>>
    /\ logged' = <<>>
    /\ UNCHANGED <<chatLogs, markCalls, serverMsgRead, serverLogRead>>

\* The poll's setChatLogs(logs).
PollChatLogs ==
    /\ chatLogs' = [j \in 1..Len(chatLogs) |->
                       [chatLogs[j] EXCEPT !.read = (chatLogs[j].id \in serverLogRead)]]
    /\ markIssued' = {}
    /\ alert' = <<>>
    /\ logged' = <<>>
    /\ UNCHANGED <<messages, markCalls, serverMsgRead, serverLogRead>>

\* The contact messages the inbox starts with.
InitialMessages == <<ContactMessage(1, 1), ContactMessage(2, 2)>>

InitMarkRead ==
    /\ InitReorderIdle
    /\ InitLikeIdle
    /\ InitRequestIdle
    /\ messages = InitialMessages
    /\ chatLogs = InitialChatLogs
    /\ inboxTab = "contact"
    /\ dateFilter = 0
    /\ inboxPage = 1
    /\ resetFrom = 0

MarkFrame ==
    UNCHANGED <<reorderVars, likeVars, commentVars, logoVars, settingsVars, pollVars,
                siteVars, inboxTab, dateFilter, inboxPage, resetFrom>>

NextMarkRead ==
    \/ (\E i \in 1..Len(messages) : handleMarkMessageRead(i)) /\ MarkFrame
    \/ (\E k \in 1..Len(pairedChatLogs) : handleMarkChatRead(k)) /\ MarkFrame
    \/ handleMarkAllRead /\ MarkFrame
    \/ (\E c \in markCalls : markSucceeds(c)) /\ MarkFrame
    \/ (\E c \in markCalls : markFails(c)) /\ MarkFrame
    \/ PollMessages /\ MarkFrame
    \/ PollChatLogs /\ MarkFrame

SpecMarkRead == InitMarkRead /\ [][NextMarkRead]_vars

\* ------------------------------------------ ProjectDetail: likes and comments
\* The view of tab A stays mounted on project Shown.
Shown == 1

Authors == {" ", "Ann"}

Texts == {" ", "Nice"}

\* String.prototype.trim on the values the inputs take here
Trim(x) == IF x = " " THEN "" ELSE IF x = " hi " THEN "hi" ELSE x

Comment(author, text) == [author |-> author, text |-> text]

\* The Project the service returns: what it holds after the operation.
ServerProject(remoteLikesNow, remoteCommentsNow) ==
    [likes |-> remoteLikesNow, comments |-> remoteCommentsNow]

\* useEffect(..., [initialProject]): likes and comments after the caller has
\* handed back the project it was given by onProjectUpdate.
PropSyncEffect(initialProject) ==
    [project |-> initialProject,
     likes |-> initialProject.likes,
     comments |-> initialProject.comments]

setNewCommentAuthor(x) ==
    /\ newCommentAuthor' = x
    /\ alert' = <<>>
    /\ logged' = <<>>
    /\ UNCHANGED <<project, comments, newCommentText, submitStatus, commentCalls,
                   statusTimers, submits, remoteComments, likeVars>>

setNewCommentText(x) ==
    /\ newCommentText' = x
    /\ alert' = <<>>
    /\ logged' = <<>>
    /\ UNCHANGED <<project, comments, newCommentAuthor, submitStatus, commentCalls,
                   statusTimers, submits, remoteComments, likeVars>>

\* handleLike of tab A: also setProject({ ...project, likes: newLikes }).
handleLikeShown ==
    /\ handleLike("tabA")
    /\ project' = (IF isLiked["tabA"] THEN project
                   ELSE [project EXCEPT !.likes = likes["tabA"] + 1])
    /\ alert' = <<>>
    /\ logged' = <<>>
    /\ UNCHANGED <<comments, newCommentAuthor, newCommentText, submitStatus,
                   commentCalls, statusTimers, submits, remoteComments>>

\* The catch block of handleLike.
likeFailsShown ==
    /\ likeFails
    /\ alert' = <<>>
    /\ logged' = <<"Failed to like project">>
    /\ UNCHANGED commentVars

likeSucceedsShown ==
    /\ likeSucceeds
    /\ alert' = <<>>
    /\ logged' = <<>>
    /\ UNCHANGED commentVars

\* The form is submitted: both inputs are filled in (required) and the submit
\* button is not disabled.
handleCommentSubmit ==
    /\ submits < MaxSubmits
    /\ newCommentAuthor # "" /\ newCommentText # ""
    /\ submitStatus # "loading"
    /\ alert' = <<>>
    /\ logged' = <<>>
    /\ IF Trim(newCommentAuthor) = "" \/ Trim(newCommentText) = ""
       THEN UNCHANGED <<submitStatus, commentCalls, submits>>
       ELSE /\ submitStatus' = "loading"
            /\ commentCalls' =
                  Append(commentCalls, Comment(newCommentAuthor, newCommentText))
            /\ submits' = submits + 1
    /\ UNCHANGED <<project, comments, newCommentAuthor, newCommentText, statusTimers,
                   remoteComments, likeVars>>

RemoveAt(s, i) == SubSeq(s, 1, i - 1) \o SubSeq(s, i + 1, Len(s))

\* await projectService.addComment(...) resolves for call i: the rest of the
\* try block, the caller's onProjectUpdate and the effect on the new prop.
commentSucceeds(i) ==
    LET stored == Append(remoteComments, commentCalls[i])
        updatedProjectServer == ServerProject(remoteLikes[Shown], stored)
        held == CallerOnProjectUpdate(store["tabA"], Shown, updatedProjectServer.likes)
        synced == PropSyncEffect([updatedProjectServer EXCEPT !.likes = held[Shown]])
    IN  /\ remoteComments' = stored
        /\ commentCalls' = RemoveAt(commentCalls, i)
        /\ comments' = synced.comments
        /\ project' = synced.project
        /\ likes' = [likes EXCEPT !["tabA"] = synced.likes]
        /\ store' = [store EXCEPT !["tabA"] = held]
        /\ newCommentAuthor' = ""
        /\ newCommentText' = ""
        /\ submitStatus' = "success"
        /\ statusTimers' = statusTimers + 1
        /\ alert' = <<>>
        /\ logged' = <<>>
        /\ UNCHANGED <<submits, detail, isLiked, likedFlags, likeCalls, likedIn,
                       likePending, remoteLikes>>

\* The catch block that also empties the inputs.
commentFails_ClearsInputs(i) ==
    /\ commentCalls' = RemoveAt(commentCalls, i)
    /\ alert' = <<"Failed to post comment. Please try again.">>
    /\ logged' = <<"Failed to post comment">>
    /\ submitStatus' = "idle"
    /\ newCommentAuthor' = ""
    /\ newCommentText' = ""
    /\ UNCHANGED <<project, comments, statusTimers, submits, remoteComments, likeVars>>

\* await projectService.addComment(...) rejects for call i: the catch block.
commentFails(i) ==
    /\ commentCalls' = RemoveAt(commentCalls, i)
    /\ alert' = <<"Failed to post comment. Please try again.">>
    /\ logged' = <<"Failed to post comment">>
    /\ submitStatus' = "idle"
    /\ UNCHANGED <<project, comments, newCommentAuthor, newCommentText, statusTimers,
                   submits, remoteComments, likeVars>>

\* setTimeout(() => setSubmitStatus('idle'), 3000) fires.
submitStatusTimer ==
    /\ statusTimers > 0
    /\ statusTimers' = statusTimers - 1
    /\ submitStatus' = "idle"
    /\ alert' = <<>>
    /\ logged' = <<>>
    /\ UNCHANGED <<project, comments, newCommentAuthor, newCommentText, commentCalls,
                   submits, remoteComments, likeVars>>

\* Another visitor's like reaches the service.
visitorLikes ==
    /\ remoteLikes[Shown] - (likeCalls[Shown] - likePending[Shown]) < MaxRemote
    /\ remoteLikes' = [remoteLikes EXCEPT ![Shown] = @ + 1]
    /\ alert' = <<>>
    /\ logged' = <<>>
    /\ UNCHANGED <<commentVars, detail, likes, isLiked, store, likedFlags, likeCalls,
                   likedIn, likePending>>

\* Another visitor's comment reaches the service.
visitorComments ==
    /\ Cardinality({j \in 1..Len(remoteComments) :
                       remoteComments[j].author = "Bob"}) < MaxRemote
    /\ remoteComments' = Append(remoteComments, Comment("Bob", "Hello"))
    /\ alert' = <<>>
    /\ logged' = <<>>
    /\ UNCHANGED <<project, comments, newCommentAuthor, newCommentText, submitStatus,
                   commentCalls, statusTimers, submits, likeVars>>

InitDetail ==
    /\ InitReorderIdle
    /\ InitInboxIdle
    /\ InitRequestIdle
    /\ detail = [v \in Views |-> IF v = "tabA" THEN Shown ELSE 0]
    /\ likes = [v \in Views |-> 0]
    /\ isLiked = [v \in Views |-> FALSE]
    /\ store = [v \in Views |-> [p \in ProjectIds |-> 0]]
    /\ likedFlags = {}
    /\ likeCalls = [p \in ProjectIds |-> 0]
    /\ likedIn = {}
    /\ likePending = [p \in ProjectIds |-> 0]
    /\ remoteLikes = [p \in ProjectIds |-> 0]

DetailFrame ==
    UNCHANGED <<reorderVars, inboxVars, markVars, logoVars, settingsVars, pollVars,
                siteVars>>

NextDetail ==
    \/ (\E x \in Authors : setNewCommentAuthor(x)) /\ DetailFrame
    \/ (\E x \in Texts : setNewCommentText(x)) /\ DetailFrame
    \/ handleLikeShown /\ DetailFrame
    \/ likeSucceedsShown /\ DetailFrame
    \/ likeFailsShown /\ DetailFrame
    \/ handleCommentSubmit /\ DetailFrame
    \/ (\E i \in 1..Len(commentCalls) : commentSucceeds(i)) /\ DetailFrame
    \/ (\E i \in 1..Len(commentCalls) : commentFails(i)) /\ DetailFrame
    \/ submitStatusTimer /\ DetailFrame
    \/ visitorLikes /\ DetailFrame
    \/ visitorComments /\ DetailFrame

SpecDetail == InitDetail /\ [][NextDetail]_vars

\* ------------------------------ AdminDashboard: logos and message deletion
\* The logos the first fetch brings.
InitialLogos == <<1, 2>>

\* A mutation call with the values its handler closed over: the ids it is
\* about and the lists (logos, messages) of the render that made it, <<>> for
\* a list the handler does not use.
Mutation(op, target, heldLogos, heldMessages) ==
    [op |-> op, target |-> target, logos |-> heldLogos, messages |-> heldMessages]

\* list.filter(x => !target.has(x))
WithoutIds(s, target) == LET Kept(x) == x \notin target IN SelectSeq(s, Kept)

\* messages.filter(m => (m._id || m.id) !== messageToDelete)
WithoutMessages(s, target) == LET Kept(x) == x.id \notin target IN SelectSeq(s, Kept)

\* A ConfirmationModal is open: the dialog covers the dashboard, so nothing
\* under it is clicked until it is closed.
ModalOpen == logoToDelete # 0 \/ messageToDelete # 0 \/ showBulkDeleteConfirm

\* onChange of the URL input
setNewLogoUrl(x) ==
    /\ ~ModalOpen
    /\ newLogoUrl' = x
    /\ UNCHANGED <<logos, isAddingLogo, logoToDelete, selectedLogoIds,
                   isBulkDeletingLogos, showBulkDeleteConfirm, messageToDelete,
                   mutationCalls, mutations, messages>>

\* The delete icon of a logo (x > 0) and the dialog's cancel button (x = 0).
setLogoToDelete(x) ==
    /\ IF x = 0 THEN logoToDelete # 0 ELSE ~ModalOpen
    /\ logoToDelete' = x
    /\ UNCHANGED <<logos, newLogoUrl, isAddingLogo, selectedLogoIds,
                   isBulkDeletingLogos, showBulkDeleteConfirm, messageToDelete,
                   mutationCalls, mutations, messages>>

toggleLogoSelection(id) ==
    /\ ~ModalOpen
    /\ selectedLogoIds' = (IF id \in selectedLogoIds THEN selectedLogoIds \ {id}
                           ELSE selectedLogoIds \cup {id})
    /\ UNCHANGED <<logos, newLogoUrl, isAddingLogo, logoToDelete,
                   isBulkDeletingLogos, showBulkDeleteConfirm, messageToDelete,
                   mutationCalls, mutations, messages>>

\* The "Select All" button: clears the selection when it has as many ids as
\* there are logos, selects every logo held otherwise.
toggleAllLogos ==
    /\ ~ModalOpen
    /\ selectedLogoIds' = (IF Cardinality(selectedLogoIds) = Len(logos) THEN {}
                           ELSE Range(logos))
    /\ UNCHANGED <<logos, newLogoUrl, isAddingLogo, logoToDelete,
                   isBulkDeletingLogos, showBulkDeleteConfirm, messageToDelete,
                   mutationCalls, mutations, messages>>

\* The "delete selected" button, rendered while selectedLogoIds.size > 0
\* (b = TRUE), and the dialog's cancel button (b = FALSE).
setShowBulkDeleteConfirm(b) ==
    /\ IF b THEN ~ModalOpen /\ selectedLogoIds # {} ELSE showBulkDeleteConfirm
    /\ showBulkDeleteConfirm' = b
    /\ UNCHANGED <<logos, newLogoUrl, isAddingLogo, logoToDelete, selectedLogoIds,
                   isBulkDeletingLogos, messageToDelete, mutationCalls, mutations,
                   messages>>

\* The delete icon of a message (x > 0) and the dialog's cancel button (x = 0).
setMessageToDelete(x) ==
    /\ IF x = 0 THEN messageToDelete # 0 ELSE ~ModalOpen
    /\ messageToDelete' = x
    /\ UNCHANGED <<logos, newLogoUrl, isAddingLogo, logoToDelete, selectedLogoIds,
                   isBulkDeletingLogos, showBulkDeleteConfirm, mutationCalls,
                   mutations, messages>>

\* The add-logo form is submitted; its button is disabled while isAddingLogo.
\* The logo the service would create gets the next id.
handleAddLogo ==
    /\ ~ModalOpen
    /\ ~isAddingLogo
    /\ mutations < MaxMutations
    /\ IF newLogoUrl = ""
       THEN UNCHANGED <<isAddingLogo, mutationCalls, mutations>>
       ELSE /\ isAddingLogo' = TRUE
            /\ mutations' = mutations + 1
            /\ mutationCalls' =
                  Append(mutationCalls,
                         Mutation("addClientLogo", {Len(InitialLogos) + mutations'},
                                  logos, <<>>))
    /\ UNCHANGED <<logos, newLogoUrl, logoToDelete, selectedLogoIds,
                   isBulkDeletingLogos, showBulkDeleteConfirm, messageToDelete,
                   messages>>

confirmDeleteLogo ==
    /\ logoToDelete # 0
    /\ mutations < MaxMutations
    /\ mutations' = mutations + 1
    /\ mutationCalls' =
          Append(mutationCalls,
                 Mutation("deleteClientLogo", {logoToDelete}, logos, <<>>))
    /\ UNCHANGED <<logos, newLogoUrl, isAddingLogo, logoToDelete, selectedLogoIds,
                   isBulkDeletingLogos, showBulkDeleteConfirm, messageToDelete,
                   messages>>

confirmBulkDeleteLogos ==
    /\ showBulkDeleteConfirm
    /\ mutations < MaxMutations
    /\ isBulkDeletingLogos' = TRUE
    /\ showBulkDeleteConfirm' = FALSE
    /\ mutations' = mutations + 1
    /\ mutationCalls' =
          Append(mutationCalls,
                 Mutation("deleteClientLogos", selectedLogoIds, <<>>, <<>>))
    /\ UNCHANGED <<logos, newLogoUrl, isAddingLogo, logoToDelete, selectedLogoIds,
                   messageToDelete, messages>>

confirmDeleteMessage ==
    /\ messageToDelete # 0
    /\ mutations < MaxMutations
    /\ mutations' = mutations + 1
    /\ mutationCalls' =
          Append(mutationCalls,
                 Mutation("deleteMessage", {messageToDelete}, <<>>, messages))
    /\ UNCHANGED <<logos, newLogoUrl, isAddingLogo, logoToDelete, selectedLogoIds,
                   isBulkDeletingLogos, showBulkDeleteConfirm, messageToDelete,
                   messages>>

\* The awaited call i resolves: the rest of the handler's try block.
mutationSucceeds(i) ==
    LET c == mutationCalls[i] IN
    /\ mutationCalls' = RemoveAt(mutationCalls, i)
    /\ alert' = <<>>
    /\ logged' = <<>>
    /\ logos' = (IF c.op = "addClientLogo"
                 THEN <<CHOOSE id \in c.target : TRUE>> \o c.logos
                 ELSE IF c.op = "deleteClientLogo" THEN WithoutIds(c.logos, c.target)
                 ELSE IF c.op = "deleteClientLogos" THEN WithoutIds(logos, c.target)
                 ELSE logos)
    /\ messages' = (IF c.op = "deleteMessage"
                    THEN WithoutMessages(c.messages, c.target)
                    ELSE messages)
    /\ newLogoUrl' = (IF c.op = "addClientLogo" THEN "" ELSE newLogoUrl)
    /\ isAddingLogo' = (IF c.op = "addClientLogo" THEN FALSE ELSE isAddingLogo)
    /\ logoToDelete' = (IF c.op = "deleteClientLogo" THEN 0 ELSE logoToDelete)
    /\ selectedLogoIds' = (IF c.op = "deleteClientLogos" THEN {} ELSE selectedLogoIds)
    /\ isBulkDeletingLogos' =
          (IF c.op = "deleteClientLogos" THEN FALSE ELSE isBulkDeletingLogos)
    /\ messageToDelete' = (IF c.op = "deleteMessage" THEN 0 ELSE messageToDelete)
    /\ UNCHANGED <<showBulkDeleteConfirm, mutations>>

MutationFailureText(c) ==
    IF c.op = "addClientLogo" THEN "Failed to add logo."
    ELSE IF c.op = "deleteClientLogo" THEN "Failed to delete logo."
    ELSE IF c.op = "deleteClientLogos" THEN "Failed to delete selected logos."
    ELSE "Failed to delete message."

\* A catch block that alerts after the change has been applied all the same.
mutationFails_AppliesChange(i) ==
    LET c == mutationCalls[i] IN
    /\ mutationCalls' = RemoveAt(mutationCalls, i)
    /\ alert' = <<MutationFailureText(c)>>
    /\ logged' = <<>>
    /\ logos' = (IF c.op = "addClientLogo"
                 THEN <<CHOOSE id \in c.target : TRUE>> \o logos
                 ELSE IF c.op = "deleteMessage" THEN logos
                 ELSE WithoutIds(logos, c.target))
    /\ messages' = (IF c.op = "deleteMessage" THEN WithoutMessages(messages, c.target)
                    ELSE messages)
    /\ isAddingLogo' = (IF c.op = "addClientLogo" THEN FALSE ELSE isAddingLogo)
    /\ isBulkDeletingLogos' =
          (IF c.op = "deleteClientLogos" THEN FALSE ELSE isBulkDeletingLogos)
    /\ UNCHANGED <<newLogoUrl, logoToDelete, selectedLogoIds, messageToDelete,
                   showBulkDeleteConfirm, mutations>>

\* The awaited call i rejects: the catch block and the finally block.
mutationFails(i) ==
    LET c == mutationCalls[i] IN
    /\ mutationCalls' = RemoveAt(mutationCalls, i)
    /\ alert' = <<MutationFailureText(c)>>
    /\ logged' = <<>>
    /\ isAddingLogo' = (IF c.op = "addClientLogo" THEN FALSE ELSE isAddingLogo)
    /\ isBulkDeletingLogos' =
          (IF c.op = "deleteClientLogos" THEN FALSE ELSE isBulkDeletingLogos)
    /\ UNCHANGED <<logos, messages, newLogoUrl, logoToDelete, selectedLogoIds,
                   messageToDelete, showBulkDeleteConfirm, mutations>>

InitLogos ==
    /\ InitReorderIdle
    /\ InitLikeIdle
    /\ InitShownIdle
    /\ InitMarkIdle
    /\ InitCommentIdle
    /\ InitSettings
    /\ InitSiteIdle
    /\ InitPollIdle
    /\ activeTab = "logos"
    /\ messages = InitialMessages
    /\ chatLogs = <<>>
    /\ inboxTab = "contact"
    /\ dateFilter = 0
    /\ inboxPage = 1
    /\ resetFrom = 0
    /\ logos = InitialLogos
    /\ newLogoUrl = ""
    /\ isAddingLogo = FALSE
    /\ logoToDelete = 0
    /\ selectedLogoIds = {}
    /\ isBulkDeletingLogos = FALSE
    /\ showBulkDeleteConfirm = FALSE
    /\ messageToDelete = 0
    /\ mutationCalls = <<>>
    /\ mutations = 0

LogoFrame ==
    UNCHANGED <<reorderVars, likeVars, markVars, commentVars, settingsVars, pollVars,
                siteVars, chatLogs, inboxTab, dateFilter, inboxPage, resetFrom>>

NextLogos ==
    \/ (\E x \in {"", "https://logo"} : setNewLogoUrl(x))
          /\ alert' = <<>> /\ logged' = <<>> /\ LogoFrame
    \/ (\E x \in {0} \cup Range(logos) : setLogoToDelete(x))
          /\ alert' = <<>> /\ logged' = <<>> /\ LogoFrame
    \/ (\E id \in Range(logos) : toggleLogoSelection(id))
          /\ alert' = <<>> /\ logged' = <<>> /\ LogoFrame
    \/ toggleAllLogos /\ alert' = <<>> /\ logged' = <<>> /\ LogoFrame
    \/ (\E b \in BOOLEAN : setShowBulkDeleteConfirm(b))
          /\ alert' = <<>> /\ logged' = <<>> /\ LogoFrame
    \/ (\E x \in {0} \cup Ids(messages) : setMessageToDelete(x))
          /\ alert' = <<>> /\ logged' = <<>> /\ LogoFrame
    \/ handleAddLogo /\ alert' = <<>> /\ logged' = <<>> /\ LogoFrame
    \/ confirmDeleteLogo /\ alert' = <<>> /\ logged' = <<>> /\ LogoFrame
    \/ confirmBulkDeleteLogos /\ alert' = <<>> /\ logged' = <<>> /\ LogoFrame
    \/ confirmDeleteMessage /\ alert' = <<>> /\ logged' = <<>> /\ LogoFrame
    \/ (\E i \in 1..Len(mutationCalls) : mutationSucceeds(i)) /\ LogoFrame
    \/ (\E i \in 1..Len(mutationCalls) : mutationFails(i)) /\ LogoFrame

SpecLogos == InitLogos /\ [][NextLogos]_vars

\* --------------------- AdminDashboard: profile save and credential update
\* onChange of the two inputs of the credentials form.
setAdminCredentials ==
    /\ \E newEmail \in {"", "admin@site"}, newPassword \in {"", "secret"} :
          adminEmail' = newEmail /\ adminPassword' = newPassword
    /\ UNCHANGED <<saveProfileStatus, credStatus, settingsCalls, settingsTimers,
                   profileData, profileSent, remoteProfile>>

\* onChange of a field of the profile form, rendered on the profile tab.
handleProfileChange ==
    /\ activeTab = "profile"
    /\ \E bio \in {"bio", "new bio"} : profileData' = bio
    /\ UNCHANGED <<saveProfileStatus, credStatus, adminEmail, adminPassword,
                   settingsCalls, settingsTimers, profileSent, remoteProfile>>

\* The save button, disabled unless saveProfileStatus is idle.
handleSaveProfile ==
    /\ saveProfileStatus = "idle"
    /\ saveProfileStatus' = "saving"
    /\ settingsCalls' = [settingsCalls EXCEPT !["updateProfile"] = @ + 1]
    /\ profileSent' = <<profileData>>
    /\ UNCHANGED <<credStatus, adminEmail, adminPassword, settingsTimers, profileData,
                   remoteProfile>>

\* The credentials form is submitted; its button is disabled unless credStatus
\* is idle.
handleUpdateCredentials ==
    /\ credStatus = "idle"
    /\ IF adminEmail = "" \/ adminPassword = ""
       THEN UNCHANGED <<credStatus, settingsCalls>>
       ELSE /\ credStatus' = "saving"
            /\ settingsCalls' =
                  [settingsCalls EXCEPT !["updateAdminCredentials"] = @ + 1]
    /\ UNCHANGED <<saveProfileStatus, adminEmail, adminPassword, settingsTimers,
                   profileData, profileSent, remoteProfile>>

\* The awaited call of op settles with status outcome, success or error: the
\* rest of the try block or the catch block, each of which starts the timer.
SettleSettings(op, outcome) ==
    /\ settingsCalls[op] > 0
    /\ settingsCalls' = [settingsCalls EXCEPT ![op] = @ - 1]
    /\ settingsTimers' = [settingsTimers EXCEPT ![op] = @ + 1]
    /\ saveProfileStatus' = (IF op = "updateProfile" THEN outcome ELSE saveProfileStatus)
    /\ credStatus' = (IF op = "updateAdminCredentials" THEN outcome ELSE credStatus)
    /\ adminEmail' = (IF op = "updateAdminCredentials" /\ outcome = "success"
                      THEN "" ELSE adminEmail)
    /\ adminPassword' = (IF op = "updateAdminCredentials" /\ outcome = "success"
                         THEN "" ELSE adminPassword)
    /\ profileSent' = (IF op = "updateProfile" THEN <<>> ELSE profileSent)
    /\ remoteProfile' = (IF op = "updateProfile" /\ outcome = "success"
                         THEN profileSent[1] ELSE remoteProfile)
    /\ UNCHANGED profileData

settingsSucceeds(op) == SettleSettings(op, "success")

\* A catch block that sets the error status and starts no timer.
settingsFails_NoTimer(op) ==
    /\ settingsCalls[op] > 0
    /\ settingsCalls' = [settingsCalls EXCEPT ![op] = @ - 1]
    /\ settingsTimers' = settingsTimers
    /\ saveProfileStatus' = (IF op = "updateProfile" THEN "error" ELSE saveProfileStatus)
    /\ credStatus' = (IF op = "updateAdminCredentials" THEN "error" ELSE credStatus)
    /\ profileSent' = (IF op = "updateProfile" THEN <<>> ELSE profileSent)
    /\ UNCHANGED <<adminEmail, adminPassword, profileData, remoteProfile>>

settingsFails(op) == SettleSettings(op, "error")

\* setTimeout(() => setSaveProfileStatus('idle'), 3000) or
\* setTimeout(() => setCredStatus('idle'), 3000) fires.
settingsTimer(op) ==
    /\ settingsTimers[op] > 0
    /\ settingsTimers' = [settingsTimers EXCEPT ![op] = @ - 1]
    /\ saveProfileStatus' = (IF op = "updateProfile" THEN "idle" ELSE saveProfileStatus)
    /\ credStatus' = (IF op = "updateAdminCredentials" THEN "idle" ELSE credStatus)
    /\ UNCHANGED <<adminEmail, adminPassword, settingsCalls, profileData, profileSent,
                   remoteProfile>>

InitSettingsTab ==
    /\ InitReorderIdle
    /\ InitInboxIdle
    /\ InitLikeIdle
    /\ InitRequestOn("profile")
    /\ InitSiteIdle

SettingsFrame ==
    /\ alert' = <<>>
    /\ logged' = <<>>
    /\ UNCHANGED <<reorderVars, inboxVars, likeVars, markVars, commentVars, logoVars,
                   pollVars, siteVars>>

NextSettings ==
    \/ setAdminCredentials /\ SettingsFrame
    \/ handleProfileChange /\ SettingsFrame
    \/ handleSaveProfile /\ SettingsFrame
    \/ handleUpdateCredentials /\ SettingsFrame
    \/ (\E op \in SettingsOps : settingsSucceeds(op)) /\ SettingsFrame
    \/ (\E op \in SettingsOps : settingsFails(op)) /\ SettingsFrame
    \/ (\E op \in SettingsOps : settingsTimer(op)) /\ SettingsFrame

SpecSettings == InitSettingsTab /\ [][NextSettings]_vars

\* The browser runs a timer callback once its delay has passed.
SpecSettingsTimed ==
    /\ SpecSettings
    /\ \A op \in SettingsOps : WF_vars(settingsTimer(op) /\ SettingsFrame)

\* ------------------------------------------------ AdminDashboard: polling
\* A contact message or a chat question reaches the service.
serverReceives ==
    /\ \/ /\ Len(serverMessages) < MaxArrivals
          /\ serverMessages' =
                Append(serverMessages, ContactMessage(Len(serverMessages) + 1, 1))
          /\ UNCHANGED serverChatLogs
       \/ /\ Len(serverChatLogs) < MaxArrivals
          /\ serverChatLogs' =
                Append(serverChatLogs, ChatLog(Len(serverChatLogs) + 1, "user", 1))
          /\ UNCHANGED serverMessages
    /\ UNCHANGED <<polls, arrived, lastDone, activeTab, messages, chatLogs, profileData>>

\* A tab button of the sidebar: the polling effect, which depends on
\* activeTab, clears its interval and starts one whose callback closes over
\* the new tab; callbacks that are running keep the tab they started with.
setActiveTab(tab) ==
    /\ activeTab' = tab
    /\ UNCHANGED <<polls, serverMessages, serverChatLogs, arrived, lastDone, messages,
                   chatLogs, profileData>>

\* The interval fires: the callback calls getMessages, which the service
\* answers with the list it holds now; the response is still on its way.
pollTick(p) ==
    /\ polls[p].pc = "idle"
    /\ polls' = [polls EXCEPT ![p] = [pc |-> "getMessages", msgs |-> serverMessages,
                                      logs |-> <<>>, changed |-> FALSE,
                                      tab |-> activeTab, pData |-> ""]]
    /\ UNCHANGED <<serverMessages, serverChatLogs, arrived, lastDone, activeTab,
                   messages, chatLogs, profileData>>

\* A getMessages response that is applied only if it is not shorter than the
\* list shown.
pollGotMessages_KeepsLonger(p) ==
    /\ polls[p].pc = "getMessages"
    /\ messages' = (IF Len(polls[p].msgs) >= Len(messages) THEN polls[p].msgs
                    ELSE messages)
    /\ polls' = [polls EXCEPT ![p] = [@ EXCEPT !.pc = "getChatLogs",
                                               !.logs = serverChatLogs,
                                               !.changed = messages' # messages]]
    /\ arrived' = [arrived EXCEPT !.msgs = <<polls[p].msgs>>]
    /\ UNCHANGED <<serverMessages, serverChatLogs, lastDone, activeTab, chatLogs,
                   profileData>>

\* The getMessages response arrives: setMessages(msgs), then getChatLogs is
\* called and answered with the list the service holds now.
pollGotMessages(p) ==
    /\ polls[p].pc = "getMessages"
    /\ messages' = polls[p].msgs
    /\ polls' = [polls EXCEPT ![p] = [@ EXCEPT !.pc = "getChatLogs",
                                               !.logs = serverChatLogs,
                                               !.changed = messages' # messages]]
    /\ arrived' = [arrived EXCEPT !.msgs = <<polls[p].msgs>>]
    /\ UNCHANGED <<serverMessages, serverChatLogs, lastDone, activeTab, chatLogs,
                   profileData>>

\* The getChatLogs response arrives: setChatLogs(logs); unless the callback
\* was started on the profile tab it calls getProfile, which the service
\* answers with the profile it holds now, otherwise the callback is done.
pollGotChatLogs(p) ==
    /\ polls[p].pc = "getChatLogs"
    /\ chatLogs' = polls[p].logs
    /\ arrived' = [arrived EXCEPT !.logs = <<polls[p].logs>>]
    /\ IF polls[p].tab # "profile"
       THEN /\ polls' = [polls EXCEPT ![p] = [@ EXCEPT !.pc = "getProfile",
                                                       !.pData = remoteProfile]]
            /\ UNCHANGED lastDone
       ELSE /\ polls' = [polls EXCEPT ![p] = IdlePoll]
            /\ lastDone' = <<[msgs |-> polls[p].msgs, logs |-> polls[p].logs]>>
    /\ UNCHANGED <<serverMessages, serverChatLogs, activeTab, messages, profileData>>

\* The getProfile response arrives: setProfileData(prev => ({...prev, ...pData}))
\* replaces the fields the service holds; the callback is done.
pollGotProfile(p) ==
    /\ polls[p].pc = "getProfile"
    /\ profileData' = polls[p].pData
    /\ polls' = [polls EXCEPT ![p] = IdlePoll]
    /\ lastDone' = <<[msgs |-> polls[p].msgs, logs |-> polls[p].logs]>>
    /\ UNCHANGED <<serverMessages, serverChatLogs, arrived, activeTab, messages,
                   chatLogs>>

\* The awaited call rejects: the catch block ends the callback.
pollFails(p) ==
    /\ polls[p].pc # "idle"
    /\ polls' = [polls EXCEPT ![p] = IdlePoll]
    /\ UNCHANGED <<serverMessages, serverChatLogs, arrived, lastDone, activeTab,
                   messages, chatLogs, profileData>>

InitPoll == InitReorderIdle /\ InitInboxIdle /\ InitLikeIdle /\ InitRequestIdle

PollFrame ==
    /\ alert' = <<>>
    /\ logged' = <<>>
    /\ UNCHANGED <<reorderVars, likeVars, markVars, commentVars, logoVars, siteVars,
                   saveProfileStatus, credStatus, adminEmail, adminPassword,
                   settingsCalls, settingsTimers, profileSent, remoteProfile,
                   inboxTab, dateFilter, inboxPage, resetFrom>>

NextPoll ==
    \/ serverReceives /\ PollFrame
    \/ (\E p \in Polls : pollTick(p)) /\ PollFrame
    \/ (\E p \in Polls : pollGotMessages(p)) /\ PollFrame
    \/ (\E p \in Polls : pollGotChatLogs(p)) /\ PollFrame
    \/ (\E p \in Polls : pollGotProfile(p)) /\ PollFrame
    \/ (\E p \in Polls : pollFails(p)) /\ PollFrame

SpecPoll == InitPoll /\ [][NextPoll]_vars

\* Polling while the admin moves between the tabs and edits the profile form.
NextProfilePoll ==
    \/ (\E tab \in Tabs : setActiveTab(tab)) /\ PollFrame
    \/ handleProfileChange /\ SettingsFrame
    \/ (\E p \in Polls : pollTick(p)) /\ PollFrame
    \/ (\E p \in Polls : pollGotMessages(p)) /\ PollFrame
    \/ (\E p \in Polls : pollGotChatLogs(p)) /\ PollFrame
    \/ (\E p \in Polls : pollGotProfile(p)) /\ PollFrame
    \/ (\E p \in Polls : pollFails(p)) /\ PollFrame

SpecProfilePoll == InitPoll /\ [][NextProfilePoll]_vars

\* ------------------------------------------- ProjectDetail: comments ribbon
\* A Comment[] with one comment: the ribbon is rendered.
OneComment == <<Comment("Bob", "Hello")>>

\* The ribbon <div> is rendered, and scrollContainerRef set, only while the
\* detail view holds a comment.
RibbonRendered == Len(comments) > 0

\* Assignment to Element.scrollLeft: the value is brought into the range the
\* element can scroll, 0 .. scrollWidth - clientWidth.
ScrollTo(x) ==
    IF x < 0 THEN 0
    ELSE IF x > scrollWidth - clientWidth THEN scrollWidth - clientWidth
    ELSE x

\* container.scrollLeft >= container.scrollWidth / 2
AtOrPastMidpoint(x) == 2 * x >= scrollWidth

\* One animation frame: the callback given to requestAnimationFrame by the
\* effect of the last render, which closed over isDragging and isHovering.
animate ==
    /\ RibbonRendered
    /\ IF ~ribbonDragging /\ ~isHovering
       THEN LET advanced == ScrollTo(containerScrollLeft + 1)
            IN  containerScrollLeft' = IF AtOrPastMidpoint(advanced) THEN 0 ELSE advanced
       ELSE UNCHANGED containerScrollLeft
    /\ frame' = [ran |-> TRUE, before |-> containerScrollLeft,
                 after |-> containerScrollLeft']
    /\ UNCHANGED <<scrollWidth, clientWidth, ribbonDragging, startX, scrollLeft,
                   isHovering, hoverTimers, pointerOver, buttonDown, touching>>

\* onMouseEnter={() => setIsHovering(true)}
onMouseEnter ==
    /\ RibbonRendered
    /\ ~pointerOver
    /\ pointerOver' = TRUE
    /\ isHovering' = TRUE
    /\ UNCHANGED <<containerScrollLeft, scrollWidth, clientWidth, ribbonDragging, startX,
                   scrollLeft, hoverTimers, buttonDown, touching>>

\* e.pageX - scrollContainerRef.current.offsetLeft, the ribbon starting at the
\* left edge of the page.
handleMouseDown(pageX) ==
    /\ RibbonRendered
    /\ pointerOver
    /\ ~buttonDown
    /\ buttonDown' = TRUE
    /\ ribbonDragging' = TRUE
    /\ startX' = pageX
    /\ scrollLeft' = containerScrollLeft
    /\ UNCHANGED <<containerScrollLeft, scrollWidth, clientWidth, isHovering, hoverTimers,
                   pointerOver, touching>>

handleMouseMove(pageX) ==
    /\ RibbonRendered
    /\ pointerOver
    /\ IF ~ribbonDragging
       THEN UNCHANGED containerScrollLeft
       ELSE LET walk == (pageX - startX) * 2
            IN  containerScrollLeft' = ScrollTo(scrollLeft - walk)
    /\ UNCHANGED <<scrollWidth, clientWidth, ribbonDragging, startX, scrollLeft,
                   isHovering, hoverTimers, pointerOver, buttonDown, touching>>

handleMouseUp ==
    /\ RibbonRendered
    /\ pointerOver
    /\ buttonDown
    /\ buttonDown' = FALSE
    /\ ribbonDragging' = FALSE
    /\ UNCHANGED <<containerScrollLeft, scrollWidth, clientWidth, startX, scrollLeft,
                   isHovering, hoverTimers, pointerOver, touching>>

\* The pointer leaves the ribbon; a button released outside it is not seen.
handleMouseLeave ==
    /\ RibbonRendered
    /\ pointerOver
    /\ pointerOver' = FALSE
    /\ buttonDown' = FALSE
    /\ ribbonDragging' = FALSE
    /\ isHovering' = FALSE
    /\ UNCHANGED <<containerScrollLeft, scrollWidth, clientWidth, startX, scrollLeft,
                   hoverTimers, touching>>

\* onTouchStart={() => setIsHovering(true)}
onTouchStart ==
    /\ RibbonRendered
    /\ ~touching
    /\ touching' = TRUE
    /\ isHovering' = TRUE
    /\ UNCHANGED <<containerScrollLeft, scrollWidth, clientWidth, ribbonDragging, startX,
                   scrollLeft, hoverTimers, pointerOver, buttonDown>>

\* onTouchEnd={() => setTimeout(() => setIsHovering(false), 1000)}
onTouchEnd ==
    /\ RibbonRendered
    /\ touching
    /\ hoverTimers < MaxHoverTimers
    /\ touching' = FALSE
    /\ hoverTimers' = hoverTimers + 1
    /\ UNCHANGED <<containerScrollLeft, scrollWidth, clientWidth, ribbonDragging, startX,
                   scrollLeft, isHovering, pointerOver, buttonDown>>

\* A timer started by onTouchEnd fires; none is ever cleared.
hoverTimer ==
    /\ hoverTimers > 0
    /\ hoverTimers' = hoverTimers - 1
    /\ isHovering' = FALSE
    /\ UNCHANGED <<containerScrollLeft, scrollWidth, clientWidth, ribbonDragging, startX,
                   scrollLeft, pointerOver, buttonDown, touching>>

\* The detail view of tab A on a project with one comment, or with none, laid
\* out at some width; the ribbon starts at its left end.
InitCarousel ==
    /\ InitReorderIdle
    /\ InitInboxIdle
    /\ InitLikeIdle
    /\ InitShownIdle
    /\ InitMarkIdle
    /\ InitLogoIdle
    /\ InitSettings
    /\ InitPollIdle
    /\ activeTab = "overview"
    /\ InitTreatIdle
    /\ InitLoginForm("paused")
    /\ InitChatIdle
    /\ \E held \in {<<>>, OneComment} :
          /\ project = [likes |-> 0, comments |-> held]
          /\ comments = held
          /\ remoteComments = held
          /\ IF held = <<>>
             THEN scrollWidth = 0 /\ clientWidth = 0
             ELSE /\ scrollWidth \in 2..MaxScrollWidth
                  /\ clientWidth \in 1..scrollWidth
    /\ newCommentAuthor = ""
    /\ newCommentText = ""
    /\ submitStatus = "idle"
    /\ commentCalls = <<>>
    /\ statusTimers = 0
    /\ submits = 0
    /\ containerScrollLeft = 0
    /\ ribbonDragging = FALSE
    /\ startX = 0
    /\ scrollLeft = 0
    /\ isHovering = FALSE
    /\ hoverTimers = 0
    /\ pointerOver = FALSE
    /\ buttonDown = FALSE
    /\ touching = FALSE
    /\ frame = NoFrame

CarouselFrame ==
    UNCHANGED <<reorderVars, inboxVars, likeVars, requestVars, treatVars, loginVars,
                chatVars>>

\* The step is an event handler or a timer, not an animation frame.
NoFrameRan == frame' = NoFrame

NextCarousel ==
    \/ animate /\ CarouselFrame
    \/ onMouseEnter /\ NoFrameRan /\ CarouselFrame
    \/ (\E pageX \in 0..MaxPageX : handleMouseDown(pageX)) /\ NoFrameRan /\ CarouselFrame
    \/ (\E pageX \in 0..MaxPageX : handleMouseMove(pageX)) /\ NoFrameRan /\ CarouselFrame
    \/ handleMouseUp /\ NoFrameRan /\ CarouselFrame
    \/ handleMouseLeave /\ NoFrameRan /\ CarouselFrame
    \/ onTouchStart /\ NoFrameRan /\ CarouselFrame
    \/ onTouchEnd /\ NoFrameRan /\ CarouselFrame
    \/ hoverTimer /\ NoFrameRan /\ CarouselFrame

SpecCarousel == InitCarousel /\ [][NextCarousel]_vars

\* -------------------------------------------------------------- TreatModal
\* useEffect(..., [isEnabled, isVisible, showCount, interval, maxShowCount]),
\* run until a render changes none of its dependencies: the cleanup clears
\* the timer of the previous run, and the run starts one or hides the modal.
TreatEffect_NoLimit(enabled, visible, count) ==
    IF enabled
    THEN [isVisible |-> visible, timer |-> IF visible THEN <<>> ELSE <<interval>>]
    ELSE [isVisible |-> FALSE, timer |-> <<>>]

TreatEffect(enabled, visible, count) ==
    IF enabled /\ count < maxShowCount
    THEN [isVisible |-> visible, timer |-> IF visible THEN <<>> ELSE <<interval>>]
    ELSE [isVisible |-> FALSE, timer |-> <<>>]

\* The caller renders the modal with another isEnabled.
setIsEnabled(enabled) ==
    /\ enabled # isEnabled
    /\ isEnabled' = enabled
    /\ LET after == TreatEffect(enabled, isVisible, showCount)
       IN  /\ isVisible' = after.isVisible
           /\ treatTimer' = after.timer
           /\ sinceHidden' = IF isVisible /\ ~after.isVisible THEN 0 ELSE sinceHidden
    /\ UNCHANGED <<interval, maxShowCount, showCount>>

\* The close button and the action button of the modal, rendered while
\* isVisible && isEnabled.
handleClose_KeepsCount ==
    /\ isVisible
    /\ isEnabled
    /\ showCount' = showCount
    /\ LET after == TreatEffect(isEnabled, FALSE, showCount')
       IN  /\ isVisible' = after.isVisible
           /\ treatTimer' = after.timer
    /\ sinceHidden' = 0
    /\ UNCHANGED <<isEnabled, interval, maxShowCount>>

handleClose ==
    /\ isVisible
    /\ isEnabled
    /\ showCount' = showCount + 1
    /\ LET after == TreatEffect(isEnabled, FALSE, showCount')
       IN  /\ isVisible' = after.isVisible
           /\ treatTimer' = after.timer
    /\ sinceHidden' = 0
    /\ UNCHANGED <<isEnabled, interval, maxShowCount>>

\* A second passes.
treatSecond ==
    /\ treatTimer' = IF treatTimer # <<>> /\ treatTimer[1] > 0
                     THEN <<treatTimer[1] - 1>>
                     ELSE treatTimer
    /\ sinceHidden' = IF ~isVisible /\ sinceHidden < interval
                      THEN sinceHidden + 1
                      ELSE sinceHidden
    /\ UNCHANGED <<isEnabled, interval, maxShowCount, isVisible, showCount>>

\* The timer has run its interval * 1000 milliseconds: setIsVisible(true),
\* and the effect runs again.
treatTimerFires ==
    /\ treatTimer # <<>>
    /\ treatTimer[1] = 0
    /\ LET after == TreatEffect(isEnabled, TRUE, showCount)
       IN  /\ isVisible' = after.isVisible
           /\ treatTimer' = after.timer
    /\ UNCHANGED <<isEnabled, interval, maxShowCount, showCount, sinceHidden>>

\* Mount of the modal with the props the caller gives it, and its effect.
InitTreat ==
    /\ InitReorderIdle
    /\ InitInboxIdle
    /\ InitLikeIdle
    /\ InitShownIdle
    /\ InitMarkIdle
    /\ InitCommentIdle
    /\ InitLogoIdle
    /\ InitSettings
    /\ InitPollIdle
    /\ activeTab = "overview"
    /\ InitCarouselIdle
    /\ InitLoginForm("paused")
    /\ InitChatIdle
    /\ isEnabled \in BOOLEAN
    /\ interval \in 1..MaxInterval
    /\ maxShowCount \in 1..MaxShowLimit
    /\ isVisible = FALSE
    /\ showCount = 0
    /\ treatTimer = TreatEffect(isEnabled, FALSE, 0).timer
    /\ sinceHidden = 0

TreatFrame ==
    UNCHANGED <<reorderVars, inboxVars, likeVars, requestVars, carouselVars, loginVars,
                chatVars>>

NextTreat ==
    \/ (\E enabled \in BOOLEAN : setIsEnabled(enabled)) /\ TreatFrame
    \/ handleClose /\ TreatFrame
    \/ treatSecond /\ TreatFrame
    \/ treatTimerFires /\ TreatFrame

SpecTreat == InitTreat /\ [][NextTreat]_vars

\* -------------------------------------------------------------- AdminLogin
\* The two components of AdminLogin.tsx: the first awaits a 1200 ms pause
\* together with the login call, the second marks both inputs required.
LoginVariants == {"paused", "required"}

Emails == {"", "admin@site", "eve@site"}

Passwords == {"", "secret", "guess"}

\* projectService.login resolves with whether the credentials are the admin's.
ServiceLogin(e, p) == e = "admin@site" /\ p = "secret"

\* The caller shows the dashboard instead of the form once onLogin was invoked.
setEmail(x) ==
    /\ ~loading
    /\ onLoginFor = <<>>
    /\ email' = x
    /\ loginSettled' = ""
    /\ UNCHANGED <<loginVariant, password, error, loading, loginCalls, onLoginFor>>

setPassword(x) ==
    /\ ~loading
    /\ onLoginFor = <<>>
    /\ password' = x
    /\ loginSettled' = ""
    /\ UNCHANGED <<loginVariant, email, error, loading, loginCalls, onLoginFor>>

\* The form is submitted; inputs and button are disabled while loading.
handleLogin ==
    /\ ~loading
    /\ onLoginFor = <<>>
    /\ loginVariant = "required" => (email # "" /\ password # "")
    /\ loading' = TRUE
    /\ error' = ""
    /\ loginCalls' = Append(loginCalls,
                            [email |-> email, password |-> password, result |-> "pending",
                             minDelay |-> loginVariant = "paused"])
    /\ loginSettled' = ""
    /\ UNCHANGED <<loginVariant, email, password, onLoginFor>>

\* The rest of the try block, and the finally block, once the await is over.
AfterLogin_AlwaysOnLogin(c, success) ==
    /\ onLoginFor' = Append(onLoginFor, [email |-> c.email, password |-> c.password])
    /\ UNCHANGED <<error, password>>
    /\ loading' = FALSE
    /\ loginSettled' = IF success THEN "truthy" ELSE "falsy"

AfterLogin(c, success) ==
    /\ IF success
       THEN /\ onLoginFor' = Append(onLoginFor, [email |-> c.email, password |-> c.password])
            /\ UNCHANGED <<error, password>>
       ELSE /\ error' = "verification failed"
            /\ password' = ""
            /\ UNCHANGED onLoginFor
    /\ loading' = FALSE
    /\ loginSettled' = IF success THEN "truthy" ELSE "falsy"

\* projectService.login resolves; the await ends unless the pause still runs.
loginResolves ==
    /\ loginCalls # <<>>
    /\ Head(loginCalls).result = "pending"
    /\ LET c == Head(loginCalls)
           success == ServiceLogin(c.email, c.password)
       IN  IF c.minDelay
           THEN /\ loginCalls' = <<[c EXCEPT !.result = IF success THEN "truthy"
                                                         ELSE "falsy"]>>
                /\ loginSettled' = ""
                /\ UNCHANGED <<password, error, loading, onLoginFor>>
           ELSE /\ loginCalls' = <<>>
                /\ AfterLogin(c, success)
    /\ UNCHANGED <<loginVariant, email>>

\* The 1200 ms pause ends; the await ends if login has resolved.
minDelayEnds ==
    /\ loginCalls # <<>>
    /\ Head(loginCalls).minDelay
    /\ LET c == Head(loginCalls)
       IN  IF c.result = "pending"
           THEN /\ loginCalls' = <<[c EXCEPT !.minDelay = FALSE]>>
                /\ loginSettled' = ""
                /\ UNCHANGED <<password, error, loading, onLoginFor>>
           ELSE /\ loginCalls' = <<>>
                /\ AfterLogin(c, c.result = "truthy")
    /\ UNCHANGED <<loginVariant, email>>

\* projectService.login rejects: the catch and finally blocks.
loginRejects ==
    /\ loginCalls # <<>>
    /\ Head(loginCalls).result = "pending"
    /\ loginCalls' = <<>>
    /\ error' = "connection error"
    /\ loading' = FALSE
    /\ loginSettled' = "rejected"
    /\ UNCHANGED <<loginVariant, email, password, onLoginFor>>

InitLogin ==
    /\ InitReorderIdle
    /\ InitInboxIdle
    /\ InitLikeIdle
    /\ InitRequestOn("overview")
    /\ InitCarouselIdle
    /\ InitTreatIdle
    /\ InitChatIdle
    /\ \E variant \in LoginVariants : InitLoginForm(variant)

LoginFrame ==
    UNCHANGED <<reorderVars, inboxVars, likeVars, requestVars, carouselVars, treatVars,
                chatVars>>

NextLogin ==
    \/ (\E x \in Emails : setEmail(x)) /\ LoginFrame
    \/ (\E x \in Passwords : setPassword(x)) /\ LoginFrame
    \/ handleLogin /\ LoginFrame
    \/ loginResolves /\ LoginFrame
    \/ minDelayEnds /\ LoginFrame
    \/ loginRejects /\ LoginFrame

SpecLogin == InitLogin /\ [][NextLogin]_vars

\* ------------------------------------------- inbox: chat logs with read flags
\* A poll brings a list with one more user entry, which another session of
\* the admin has already marked read.
ReceiveReadChatLog ==
    /\ Len(chatLogs) < MaxLogs
    /\ \E t \in 1..MaxTime :
          chatLogs' = Append(chatLogs,
                             [ChatLog(Len(chatLogs) + 1, "user", t) EXCEPT !.read = TRUE])
    /\ UNCHANGED <<messages, inboxTab, dateFilter, inboxPage, resetFrom>>

NextPairRead ==
    \/ ReceiveChatLog /\ UNCHANGED <<reorderVars, likeVars, requestVars, siteVars>>
    \/ ReceiveReadChatLog /\ UNCHANGED <<reorderVars, likeVars, requestVars, siteVars>>

SpecPairRead == InitPairing /\ [][NextPairRead]_vars

\* --------------------------------- AdminDashboard: inbox under deletes and polls
\* The contact messages the first fetch brings: one more than a page holds.
InitialInbox == [j \in 1..(ITEMS_PER_PAGE + 1) |-> ContactMessage(j, 1)]

\* A visitor's contact message reaches the service, which numbers it: the one
\* arrival after the first fetch.
visitorWrites ==
    /\ serverMessages = InitialInbox
    /\ serverMessages' =
          Append(serverMessages, ContactMessage(Len(serverMessages) + 1, 1))
    /\ UNCHANGED <<polls, serverChatLogs, arrived, lastDone, activeTab, messages,
                   chatLogs, profileData>>

\* The awaited deleteMessage call i resolves: the service has removed the
\* message, and the rest of the handler's try block runs.
deleteMessageSucceeds(i) ==
    /\ mutationCalls[i].op = "deleteMessage"
    /\ mutationSucceeds(i)
    /\ serverMessages' = WithoutMessages(serverMessages, mutationCalls[i].target)
    /\ UNCHANGED <<polls, serverChatLogs, arrived, lastDone, activeTab>>

InitInboxSync ==
    /\ InitReorderIdle
    /\ InitLikeIdle
    /\ InitShownIdle
    /\ InitMarkIdle
    /\ InitCommentIdle
    /\ InitLogoIdle
    /\ InitSettings
    /\ InitSiteIdle
    /\ polls = [p \in Polls |-> IdlePoll]
    /\ serverMessages = InitialInbox
    /\ serverChatLogs = <<>>
    /\ arrived = [msgs |-> <<>>, logs |-> <<>>]
    /\ lastDone = <<>>
    /\ activeTab = "inbox"
    /\ messages = InitialInbox
    /\ chatLogs = <<>>
    /\ inboxTab = "contact"
    /\ dateFilter = 0
    /\ inboxPage = 1
    /\ resetFrom = 0

\* What the page buttons leave alone.
PageFrame ==
    /\ ~ModalOpen
    /\ alert' = <<>>
    /\ logged' = <<>>
    /\ UNCHANGED <<reorderVars, likeVars, markVars, commentVars, logoVars, settingsVars,
                   pollVars, siteVars>>

\* What the handlers of the delete dialog leave alone.
DeleteFrame ==
    UNCHANGED <<reorderVars, likeVars, markVars, commentVars, settingsVars, siteVars,
                chatLogs, inboxTab, dateFilter, inboxPage, resetFrom>>

\* Every poll response arrives before the next tick, so one callback runs at a time.
NextInboxSync ==
    \/ handlePrevPage /\ PageFrame
    \/ handleNextPage /\ PageFrame
    \/ (\E x \in {0} \cup Ids(paginatedInboxData) : setMessageToDelete(x))
          /\ alert' = <<>> /\ logged' = <<>> /\ LogoFrame
    \/ confirmDeleteMessage /\ alert' = <<>> /\ logged' = <<>> /\ LogoFrame
    \/ (\E i \in 1..Len(mutationCalls) : deleteMessageSucceeds(i)) /\ DeleteFrame
    \/ (\E i \in 1..Len(mutationCalls) : mutationFails(i)) /\ LogoFrame
    \/ visitorWrites /\ PollFrame
    \/ pollTick("first") /\ PollFrame
    \/ pollGotMessages("first") /\ PollFrame
    \/ pollGotChatLogs("first") /\ PollFrame
    \/ pollGotProfile("first") /\ PollFrame
    \/ pollFails("first") /\ PollFrame

SpecInboxSync == InitInboxSync /\ [][NextInboxSync]_vars

\* ----------------------------------------------------- BackToTop: ChatWidget
\* What the visitor may type.
ChatInputs == {"", " ", "hi", " hi "}

\* What extractTextFromResponse, or response.text(), may yield.
ResponseTexts == {"reply", "", "{}"}

EmptyResponseText == "I received an empty response."

\* if (!aiResponseText || aiResponseText === '{}') aiResponseText = "I received ..."
AiResponseText(text) == IF text = "" \/ text = "{}" THEN EmptyResponseText ELSE text

\* The text the catch block builds from the error's message.
ErrorMessage(message) ==
    IF message = "Failed to fetch" THEN "Sorry, I encountered an error (Network/CORS Error)"
    ELSE "Sorry, I encountered an error (" \o message \o ")"

WebhookCall(userText, history) ==
    [userText |-> userText, history |-> history, stage |-> "fetch"]

\* The floating button, and the panel's close button.
setIsOpen(b) ==
    /\ isOpen # b
    /\ isOpen' = b
    /\ UNCHANGED <<widgetMessages, input, isLoading, webhookCalls, savedInteractions,
                   sends>>

\* onChange of the input, which is disabled while isLoading.
setInput(x) ==
    /\ isOpen
    /\ ~isLoading
    /\ input' = x
    /\ UNCHANGED <<isOpen, widgetMessages, isLoading, webhookCalls, savedInteractions,
                   sends>>

\* Enter in the input or a click on the send button: handleSend up to its
\* await fetch(...).
handleSend ==
    /\ isOpen
    /\ sends < MaxSends
    /\ IF Trim(input) = "" \/ isLoading
       THEN UNCHANGED <<widgetMessages, input, isLoading, webhookCalls,
                        savedInteractions, sends>>
       ELSE /\ widgetMessages' =
                  Append(widgetMessages, [role |-> "user", text |-> Trim(input)])
            /\ input' = ""
            /\ isLoading' = TRUE
            /\ savedInteractions' = Append(savedInteractions, "user")
            /\ webhookCalls' =
                  Append(webhookCalls, WebhookCall(Trim(input), widgetMessages))
            /\ sends' = sends + 1
    /\ UNCHANGED isOpen

\* A catch block that only logs the error.
Caught_Silent(i, message) ==
    /\ webhookCalls' = RemoveAt(webhookCalls, i)
    /\ isLoading' = FALSE
    /\ UNCHANGED <<isOpen, widgetMessages, input, savedInteractions, sends>>

\* The catch block and the finally block of call i.
Caught(i, message) ==
    /\ webhookCalls' = RemoveAt(webhookCalls, i)
    /\ widgetMessages' =
          Append(widgetMessages, [role |-> "model", text |-> ErrorMessage(message)])
    /\ isLoading' = FALSE
    /\ UNCHANGED <<isOpen, input, savedInteractions, sends>>

\* fetch of call i rejects.
fetchRejects(i) ==
    /\ webhookCalls[i].stage = "fetch"
    /\ Caught(i, "Failed to fetch")

\* fetch of call i resolves: a response that is not ok is thrown, the body of
\* one that is ok is awaited.
fetchResolves(i, ok) ==
    /\ webhookCalls[i].stage = "fetch"
    /\ IF ok
       THEN /\ webhookCalls' = [webhookCalls EXCEPT ![i].stage = "body"]
            /\ UNCHANGED <<isOpen, widgetMessages, input, isLoading, savedInteractions,
                           sends>>
       ELSE Caught(i, "Server Error: 500")

\* response.json() or response.text() of call i resolves: the rest of the try
\* block and the finally block.
bodyResolves(i, text) ==
    /\ webhookCalls[i].stage = "body"
    /\ webhookCalls' = RemoveAt(webhookCalls, i)
    /\ savedInteractions' = Append(savedInteractions, "model")
    /\ widgetMessages' =
          Append(widgetMessages, [role |-> "model", text |-> AiResponseText(text)])
    /\ isLoading' = FALSE
    /\ UNCHANGED <<isOpen, input, sends>>

\* response.json() of call i rejects: the body is not JSON.
bodyRejects(i) ==
    /\ webhookCalls[i].stage = "body"
    /\ Caught(i, "Unexpected token")

InitChat ==
    /\ InitReorderIdle
    /\ InitInboxIdle
    /\ InitLikeIdle
    /\ InitRequestIdle

ChatFrame ==
    UNCHANGED <<reorderVars, inboxVars, likeVars, requestVars, carouselVars, treatVars,
                loginVars>>

NextChat ==
    \/ (\E b \in BOOLEAN : setIsOpen(b)) /\ ChatFrame
    \/ (\E x \in ChatInputs : setInput(x)) /\ ChatFrame
    \/ handleSend /\ ChatFrame
    \/ (\E i \in 1..Len(webhookCalls) : fetchRejects(i)) /\ ChatFrame
    \/ (\E i \in 1..Len(webhookCalls), ok \in BOOLEAN : fetchResolves(i, ok)) /\ ChatFrame
    \/ (\E i \in 1..Len(webhookCalls), text \in ResponseTexts : bodyResolves(i, text))
          /\ ChatFrame
    \/ (\E i \in 1..Len(webhookCalls) : bodyRejects(i)) /\ ChatFrame

SpecChat == InitChat /\ [][NextChat]_vars

\* ------------------------------------------------- reorder claims (C1-C4)

\* C1: while a drag is in progress (from the drag-start step on), localProjects
\* is never replaced by the projects prop: a step that changes the prop leaves
\* localProjects alone, and every change of localProjects is a reordering of
\* the same projects made while the prop stays as it is.
C1_DragSuppressesPropSync ==
    [][isDragging' =>
          /\ (projects' # projects => localProjects' = localProjects)
          /\ (localProjects' # localProjects =>
                 /\ isDragging
                 /\ projects' = projects
                 /\ IsPermutationOf(localProjects', Range(localProjects)))]_vars

\* A prop with other content than localProjects arrived during the drag.
C1_Witness ==
    /\ isDragging
    /\ SumLikes(projects) > SumLikes(localProjects)
    /\ JSONstringify(projects) # JSONstringify(localProjects)

\* C2: when isDragging is false after a step that changed the prop or ended a
\* drag, localProjects is the prop value (replaced when it differed, left as it
\* was when it was equal); so whenever no drag is in progress localProjects
\* equals the prop, also for an update that arrived during the drag.
C2_SyncWhenNotDragging ==
    /\ [](~isDragging => localProjects = projects)
    /\ [][(~isDragging' /\ (projects' # projects \/ isDragging)) =>
             localProjects' = (IF projects' # localProjects
                               THEN projects' ELSE localProjects)]_vars

\* After a drag whose order the prop never took, the prop (with a like that
\* the dragged list does not have) has replaced localProjects.
C2_Witness ==
    /\ ~isDragging
    /\ persist = "inflight"
    /\ ~propGotOrder
    /\ SumLikes(projects) > SumLikes(reorderArg)
    /\ localProjects = projects

\* C3: no onReorderProjects call is made while a drag is in progress; the step
\* that ends the drag sets isDragging to false and makes exactly one call, whose
\* argument is localProjects as the gesture left it, a permutation of the list
\* held at drag start; no further call is made until the next drag.
C3_OneReorderCallAtDragEnd ==
    /\ [](isDragging => callsInGesture = 0 /\ reorderArg = <<>>)
    /\ [](~isDragging => callsInGesture <= 1)
    /\ [][(callsInGesture' # callsInGesture /\ callsInGesture' # 0) =>
             isDragging /\ ~isDragging']_vars
    /\ [][(isDragging /\ ~isDragging') =>
             /\ callsInGesture' = 1
             /\ reorderArg' = localProjects
             /\ IsPermutationOf(reorderArg', dragStartSet)]_vars

\* A drag has ended with an order the prop did not have.
C3_Witness ==
    /\ ~isDragging
    /\ callsInGesture = 1
    /\ persist = "inflight"
    /\ ~propGotOrder
    /\ SumLikes(reorderArg) = SumLikes(projects)

\* C4 as stated: after persisting has failed with the prop never updated to the
\* dragged order, localProjects still has the dragged order.
C4_KeepsDraggedOrder ==
    (persist = "failed" /\ ~propGotOrder /\ ~isDragging) => localProjects = reorderArg

\* C4 amended: after persisting has failed, localProjects equals the projects
\* prop; it has the dragged order only if the prop was set to the dragged
\* order, and otherwise the effect re-run at drag end has put the prop's order
\* back.
C4_FollowsPropAfterFailure ==
    (persist = "failed" /\ ~isDragging) =>
        /\ localProjects = projects
        /\ (~propGotOrder => localProjects # reorderArg)

C4_Witness == persist = "failed" /\ ~propGotOrder /\ ~isDragging

\* ------------------------------------------------- pairing claims (C5-C7)

\* The entries of chatLogs in ascending createdAt order, entries of equal
\* createdAt in list order: entry i stands at position Rank(i).
Rank(logs, i) ==
    1 + Cardinality({j \in 1..Len(logs) :
                        \/ logs[j].createdAt < logs[i].createdAt
                        \/ (logs[j].createdAt = logs[i].createdAt /\ j < i)})

Ascending(logs) ==
    [k \in 1..Len(logs) |-> logs[CHOOSE i \in 1..Len(logs) : Rank(logs, i) = k]]

Alternating(s) ==
    /\ Len(s) % 2 = 0
    /\ \A k \in 1..Len(s) : s[k].role = (IF k % 2 = 1 THEN "user" ELSE "model")

C8_LikedAtMostOnce ==
    \A p \in ProjectIds :
       /\ likeCalls[p] <= 1
       /\ Cardinality({v \in Views : <<v, p>> \in likedIn}) <= 1
       /\ remoteLikes[p] <= 1
       /\ \A v \in Views :
             <<v, p>> \in likedIn =>
                 /\ p \in likedFlags
                 /\ (detail[v] = p => isLiked[v])

\* ---------------------------------------------- pagination claims (C9, C10)

\* C9: for the n filtered and sorted items and page size 5, page k holds
\* exactly the items at (0-based) positions (k-1)*5 .. min(k*5, n)-1 in that
\* order, for every page k and for the page shown; the page count is the least
\* number of pages of 5 that hold n items, and 1 for n = 0; for n = 12 page 1
\* has 5 items and page 3 has 2.
C9_PagesPartitionTheInbox ==
    LET data == processedInboxData
        n == Len(data)
        HoldsRange(page, k) ==
            /\ Len(page) = Max(0, Min(k * 5, n) - (k - 1) * 5)
            /\ \A j \in 1..Len(page) : page[j] = data[(k - 1) * 5 + j]
    IN  /\ \A k \in 1..(totalInboxPages + 1) : HoldsRange(PageOf(data, k), k)
        /\ HoldsRange(paginatedInboxData, inboxPage)
        /\ IF n = 0 THEN totalInboxPages = 1
           ELSE (totalInboxPages - 1) * 5 < n /\ n <= totalInboxPages * 5
        /\ n = 12 => /\ totalInboxPages = 3
                     /\ Len(PageOf(data, 1)) = 5
                     /\ Len(PageOf(data, 3)) = 2

\* Twelve items of more than one day, the third page shown.
C9_Witness ==
    /\ Len(processedInboxData) = 12
    /\ inboxPage = 3
    /\ Len(paginatedInboxData) = 2
    /\ processedInboxData[1].createdAt > processedInboxData[12].createdAt

\* C10: every step that changes inboxTab or dateFilter ends with inboxPage = 1,
\* whatever the page was; a page navigation step changes neither inboxTab nor
\* dateFilter.
C10_FilterChangeResetsPage ==
    [][/\ (inboxTab' # inboxTab \/ dateFilter' # dateFilter) => inboxPage' = 1
       /\ (inboxPage' # inboxPage /\ inboxPage' # 1) =>
             (inboxTab' = inboxTab /\ dateFilter' = dateFilter)
       /\ (handlePrevPage \/ handleNextPage) =>
             (inboxTab' = inboxTab /\ dateFilter' = dateFilter)]_vars

\* The filter was set while the third page was shown, and the first page of
\* the filtered items is shown now.
C10_Witness ==
    /\ resetFrom = 3
    /\ dateFilter # 0
    /\ inboxPage = 1
    /\ Len(processedInboxData) > ITEMS_PER_PAGE

\* ------------------------------------------------- date filter claim (C11)

\* The number of positions of s that hold x.
Count(s, x) == Cardinality({i \in DOMAIN s : s[i] = x})

\* C11: when dateFilter is set, processedInboxData holds exactly the items of
\* the active tab (contact messages or chat pairs) whose creation day, as the
\* comparison computes it, equals dateFilter, each as often as the tab holds it,
\* newest first; when dateFilter is empty it holds all items of the active tab.
C11_FilterKeepsExactlyTheDay ==
    LET source == IF inboxTab = "contact" THEN messages ELSE pairedChatLogs
        Matches(item) == dateFilter = 0 \/ DayOf(item.createdAt) = dateFilter
        out == processedInboxData
    IN  /\ \A x \in Range(source) \cup Range(out) :
              Count(out, x) = (IF Matches(x) THEN Count(source, x) ELSE 0)
        /\ \A i \in 1..(Len(out) - 1) : out[i].createdAt >= out[i + 1].createdAt

\* A filter is set that keeps two messages of different times of one day and
\* drops a message of another day.
C11_Witness ==
    /\ inboxTab = "contact"
    /\ dateFilter # 0
    /\ Len(processedInboxData) >= 2
    /\ processedInboxData[1].createdAt > processedInboxData[2].createdAt
    /\ \E i \in 1..Len(messages) : DayOf(messages[i].createdAt) # dateFilter

\* ------------------------------------------------- read tracking claim (C12)

ItemRead(s, id) == \E j \in 1..Len(s) : s[j].id = id /\ s[j].read

AllRead(s) == \A j \in 1..Len(s) : s[j].read

\* The step that issues a mark-read call has set the flag of every item the
\* call covers.
FlagSetWithCall(c) ==
    /\ c.op = "markMessageRead" => ItemRead(messages', c.id)
    /\ c.op = "markChatLogRead" => ItemRead(chatLogs', c.id)
    /\ c.op = "markAllMessagesRead" => AllRead(messages')
    /\ c.op = "markAllChatLogsRead" => AllRead(chatLogs')

\* A failed call leaves the flags as they are and shows no alert.
FailureKeepsFlags ==
    (\E c \in markCalls : markFails(c)) =>
        /\ messages' = messages
        /\ chatLogs' = chatLogs
        /\ alert' = <<>>

LocalEqualsServer ==
    /\ project' = ServerProject(remoteLikes'[Shown], remoteComments')
    /\ likes'["tabA"] = remoteLikes'[Shown]
    /\ comments' = remoteComments'

\* C13: the step in which a like or a comment post succeeds leaves the detail
\* view's project, likes and comments equal to the Project the service returns,
\* which is what the service now holds.
C13_SuccessReplacesLocalState ==
    [][(likeSucceedsShown \/ \E i \in 1..Len(commentCalls) : commentSucceeds(i))
          => LocalEqualsServer]_vars

\* C14: the step that makes an addComment call appends the new comment to the
\* displayed comments, before the call completes.
C14_CommentShownAtSubmit ==
    [][submits' = submits + 1 =>
          comments' = Append(comments, Comment(newCommentAuthor, newCommentText))]_vars

LikeFailed(p) == likeCalls[p] > likePending[p] + remoteLikes[p]

\* C16: the step in which likeProject fails leaves the likes counter, isLiked
\* and the localStorage flag as the like set them; and once the call for a
\* project has failed, the flag is set, every view that made the like shows
\* it as liked, and no further likeProject call for that project is made from
\* the browser.
C16_FailedLikeIsKeptAndFinal ==
    [][/\ likeFails => (likes' = likes /\ isLiked' = isLiked /\ likedFlags' = likedFlags)
       /\ \A p \in ProjectIds :
             LikeFailed(p) =>
                 /\ p \in likedFlags
                 /\ \A v \in Views :
                       (<<v, p>> \in likedIn /\ detail[v] = p) => isLiked[v]
                 /\ likeCalls'[p] = likeCalls[p]]_vars

\* ------------------------------------------- logo and message claims (C17)

\* The change call c attempted is in place in the lists after the step.
ChangeApplied(c) ==
    /\ c.op = "addClientLogo" => c.target \subseteq Range(logos')
    /\ c.op \in {"deleteClientLogo", "deleteClientLogos"} =>
           c.target \cap Range(logos') = {}
    /\ c.op = "deleteMessage" => c.target \cap Ids(messages') = {}

\* C17 as stated: when a logo mutation or a message deletion fails, the step
\* shows a blocking alert and the attempted change is in place in logos /
\* messages.
C17_FailedChangeStaysApplied ==
    [][\A i \in 1..Len(mutationCalls) :
          mutationFails(i) =>
              (alert' # <<>> /\ ChangeApplied(mutationCalls[i]))]_vars

\* C17 amended: when a logo mutation or a message deletion fails, the step
\* shows the handler's blocking alert and leaves logos and messages as they
\* are; the step that made the call had not changed them either, so the
\* attempted change is never applied by a failed attempt.
C17_FailedChangeIsNotApplied ==
    [][/\ \A i \in 1..Len(mutationCalls) :
             mutationFails(i) =>
                 /\ alert' = <<MutationFailureText(mutationCalls[i])>>
                 /\ logos' = logos
                 /\ messages' = messages
       /\ mutations' # mutations => (logos' = logos /\ messages' = messages)]_vars

\* Deleting a logo has just failed: the alert is up, the dialog still names
\* the logo, and the logo is still in the list.
C17_Witness ==
    /\ alert = <<"Failed to delete logo.">>
    /\ logoToDelete \in Range(logos)
    /\ mutationCalls = <<>>

\* ------------------------------------------------ status claim (C20)

StatusOf(op, profileStatus, credentialStatus) ==
    IF op = "updateProfile" THEN profileStatus ELSE credentialStatus

StatusMoves ==
    {<<"idle", "saving">>, <<"saving", "success">>, <<"saving", "error">>,
     <<"success", "idle">>, <<"error", "idle">>}

\* What a step may do to the status, the calls and the timers of op.
StatusStep(op) ==
    LET before == StatusOf(op, saveProfileStatus, credStatus)
        after == StatusOf(op, saveProfileStatus', credStatus')
    IN  /\ before # after => <<before, after>> \in StatusMoves
        /\ settingsCalls'[op] < settingsCalls[op] =>
               (before = "saving" /\ after \in {"success", "error"}
                /\ settingsTimers'[op] = settingsTimers[op] + 1)
        /\ (before # "idle" /\ after = "idle") =>
               settingsTimers'[op] = settingsTimers[op] - 1
        /\ settingsCalls'[op] > settingsCalls[op] =>
               (before = "idle" /\ (handleSaveProfile \/ handleUpdateCredentials))
        /\ settingsFails(op) => settingsCalls'[op] = settingsCalls[op] - 1

\* With no call of op in flight, a status other than idle leads to idle.
SettledLeadsToIdle(op) ==
    (StatusOf(op, saveProfileStatus, credStatus) # "idle" /\ settingsCalls[op] = 0)
        ~> (StatusOf(op, saveProfileStatus, credStatus) = "idle")

\* C20: the status of a profile save and of a credential update changes only
\* along idle -> saving -> (success or error) -> idle: it leaves saving in the
\* step in which the call settles, to success or to error, and returns to idle
\* only when the timer started by that step fires; once the call has settled
\* the status reaches idle again (it does not stay in saving, success or error);
\* a call is made only by the handler, from idle, so the step in which a call
\* fails makes no new call.
C20_StatusReturnsToIdle ==
    /\ [][StatusStep("updateProfile") /\ StatusStep("updateAdminCredentials")]_vars
    /\ SettledLeadsToIdle("updateProfile")
    /\ SettledLeadsToIdle("updateAdminCredentials")

\* A credential update has failed and a profile save has succeeded; both
\* timers are pending.
C20_Witness ==
    /\ credStatus = "error"
    /\ saveProfileStatus = "success"
    /\ settingsTimers = [op \in SettingsOps |-> 1]
    /\ settingsCalls = [op \in SettingsOps |-> 0]

\* ----------------------------------------------- busy flag claim (C18)

AddLogoCalls ==
    Cardinality({i \in 1..Len(mutationCalls) : mutationCalls[i].op = "addClientLogo"})

\* C18: of comment submit, add-logo, profile save and credential update at
\* most one request is in flight at any time, and while one is in flight the
\* action's busy flag is set (submitStatus is loading, isAddingLogo is true,
\* the status is saving), which disables its trigger.
C18_OneRequestPerAction ==
    /\ Len(commentCalls) <= 1
    /\ commentCalls # <<>> => submitStatus = "loading"
    /\ AddLogoCalls <= 1
    /\ AddLogoCalls = 1 => isAddingLogo
    /\ \A op \in SettingsOps :
          /\ settingsCalls[op] <= 1
          /\ settingsCalls[op] = 1 =>
                 StatusOf(op, saveProfileStatus, credStatus) = "saving"

\* --------------------------------------------------- polling claim (C19)

AllPollsIdle == \A p \in Polls : polls[p].pc = "idle"

\* C19 as stated: once the overlapping callbacks have completed, messages and
\* chatLogs are what the callback that completed last had fetched, and a
\* callback that fails has changed neither list.
C19_LastPollWins ==
    [][/\ (AllPollsIdle' /\ lastDone' # <<>>) =>
             (messages' = lastDone'[1].msgs /\ chatLogs' = lastDone'[1].logs)
       /\ \A p \in Polls : pollFails(p) => ~polls[p].changed]_vars

\* C19 amended: last-response-wins holds for each list on its own: messages
\* is the getMessages response that arrived last and chatLogs the getChatLogs
\* response that arrived last, whichever callbacks made the requests and in
\* whichever order, so the two lists may come from different callbacks; the
\* step in which a callback fails changes neither list, and the messages the
\* callback had set before its getChatLogs call failed stay.
C19_LastResponseWinsPerList ==
    /\ [](arrived.msgs # <<>> => messages = arrived.msgs[1])
    /\ [](arrived.logs # <<>> => chatLogs = arrived.logs[1])
    /\ [][\A p \in Polls :
             /\ pollGotMessages(p) => (messages' = polls[p].msgs /\ chatLogs' = chatLogs)
             /\ pollGotChatLogs(p) => (chatLogs' = polls[p].logs /\ messages' = messages)
             /\ pollFails(p) => (messages' = messages /\ chatLogs' = chatLogs)]_vars

\* Both callbacks have completed and the lists shown are not what the one
\* that completed last had fetched: the messages come from the other one.
C19_Witness ==
    /\ AllPollsIdle
    /\ lastDone # <<>>
    /\ chatLogs = lastDone[1].logs
    /\ messages # lastDone[1].msgs
    /\ messages = arrived.msgs[1]

\* ------------------------------------------- comments ribbon claims (C21, C22)
\* The last step was a frame that ran with no hover and no drag: these flags
\* are not changed by a frame.
AutomaticTick == frame.ran /\ ~ribbonDragging /\ ~isHovering

\* C21: every automatic tick with no hover and no drag advances the offset of
\* the ribbon by 1, and resets it to 0 in that same tick when the advanced
\* offset is at or beyond half of the scroll width.
C21_TickAdvancesByOne ==
    AutomaticTick =>
       frame.after = IF AtOrPastMidpoint(frame.before + 1) THEN 0 ELSE frame.before + 1

\* The part of C21 that holds: after every automatic tick the offset is below
\* the midpoint, having been reset when the advanced offset was not.
C21_BelowMidpointAfterTick ==
    AutomaticTick =>
       /\ containerScrollLeft = frame.after
       /\ ~AtOrPastMidpoint(containerScrollLeft)
       /\ AtOrPastMidpoint(ScrollTo(frame.before + 1)) => containerScrollLeft = 0

\* An automatic tick has reset the ribbon to its left end.
C21_ResetByTick == AutomaticTick /\ frame.before > 0 /\ containerScrollLeft = 0

\* C22: a frame that runs while a finger is on the ribbon does not advance it.
C22_NoAdvanceWhileTouching == (frame.ran /\ touching) => frame.after = frame.before

\* The part of C22 that holds: a frame that runs while isDragging or
\* isHovering is set does not move the ribbon.
C22_PausedWhileFlagged ==
    (frame.ran /\ (ribbonDragging \/ isHovering)) => frame.after = frame.before

\* A frame ran while the pointer was over the ribbon with isHovering set.
C22_FrameWhileHovering == frame.ran /\ pointerOver /\ isHovering

\* ------------------------------------------------ profile polling claim (C23)
\* C23: in a step taken while activeTab is 'profile', the polling loop does not
\* modify profileData.
C23_PollKeepsProfileOnProfileTab ==
    [][(activeTab = "profile" /\ \E p \in Polls : pollGotProfile(p)) =>
          profileData' = profileData]_vars

\* The part of C23 that holds: a callback started on the profile tab makes no
\* getProfile call.
C23_NoProfileCallFromProfileTab ==
    \A p \in Polls : polls[p].pc = "getProfile" => polls[p].tab # "profile"

\* The profile tab is shown with an edit not yet saved.
C23_UnsavedEdit == activeTab = "profile" /\ profileData # remoteProfile

\* --------------------------------------------------- treat modal claim (C24)
\* C24: the modal is visible only while isEnabled is true and showCount is
\* below maxShowCount, and becomes visible only when the timer fires, interval
\* seconds after it was last hidden; each close increments showCount by
\* exactly one, hides the modal and, below the limit, restarts the timer with
\* the full interval; showCount never decreases, so once it has reached
\* maxShowCount the modal stays hidden; it is hidden whenever isEnabled is
\* false.
C24_TreatModal ==
    /\ [](isVisible => (isEnabled /\ showCount < maxShowCount /\ sinceHidden >= interval))
    /\ [](~isEnabled => ~isVisible)
    /\ [](showCount >= maxShowCount => (~isVisible /\ treatTimer = <<>>))
    /\ [][/\ (~isVisible /\ isVisible') => treatTimerFires
          /\ showCount' >= showCount
          /\ showCount' # showCount => handleClose
          /\ handleClose =>
                /\ showCount' = showCount + 1
                /\ ~isVisible'
                /\ treatTimer' = IF showCount' < maxShowCount THEN <<interval>> ELSE <<>>]_vars

\* The modal has been shown and closed maxShowCount times, more than once, and
\* is still enabled.
C24_Witness ==
    /\ isEnabled
    /\ maxShowCount > 1
    /\ showCount = maxShowCount
    /\ ~isVisible

\* --------------------------------------------------- admin login claim (C25)
\* C25: onLogin is invoked only in the step that completes a call whose
\* projectService.login resolved truthy, with the credentials submitted; when
\* login resolves falsy onLogin is not invoked, an error is set and the
\* password field is cleared; when it rejects onLogin is not invoked and an
\* error is set; in each case loading is false afterwards, and it is true
\* exactly while a call is awaited.
C25_LoginOutcomes ==
    /\ [](loading <=> loginCalls # <<>>)
    /\ [](Len(loginCalls) <= 1)
    /\ [](\A i \in 1..Len(onLoginFor) :
             ServiceLogin(onLoginFor[i].email, onLoginFor[i].password))
    /\ [](loginSettled = "truthy" => (~loading /\ onLoginFor # <<>>))
    /\ [](loginSettled = "falsy" => (~loading /\ error # "" /\ password = ""))
    /\ [](loginSettled = "rejected" => (~loading /\ error # ""))
    /\ [][/\ onLoginFor' # onLoginFor =>
                /\ loginCalls # <<>>
                /\ loginSettled' = "truthy"
                /\ onLoginFor' = Append(onLoginFor, [email |-> Head(loginCalls).email,
                                                     password |-> Head(loginCalls).password])
                /\ Head(loginCalls).email = email
                /\ Head(loginCalls).password = password
          /\ loginSettled' \in {"falsy", "rejected"} => onLoginFor' = onLoginFor]_vars

\* A login with wrong credentials has been refused after the pause.
C25_Witness ==
    /\ loginVariant = "paused"
    /\ loginSettled = "falsy"
    /\ password = ""
    /\ onLoginFor = <<>>

\* The admin has been let in.
C25_LoggedIn == loginSettled = "truthy" /\ onLoginFor # <<>>

\* ------------------------------------------- pairing conservation claim (C26)
\* The pairs of the list pairs that hold entry e in the slot of its role.
PairsHolding(e, pairs) ==
    {i \in 1..Len(pairs) :
        IF e.role = "user" THEN pairs[i].userMsg = <<e>> ELSE pairs[i].modelMsg = <<e>>}

\* The filled slots of pair r.
SlotsOf(r) == Len(r.userMsg) + Len(r.modelMsg)

RECURSIVE SumSlots(_)
SumSlots(s) == IF s = <<>> THEN 0 ELSE SlotsOf(Head(s)) + SumSlots(Tail(s))

\* C26: every chat log entry is in exactly one pair, as userMsg if its role is
\* user and as modelMsg if model, the pairs hold nothing else, a pair's read
\* flag is its user message's read flag (true for a model-only pair), and
\* unreadChatLogsCount is the number of pairs with read = false.
C26_PairingConservesEntries ==
    LET pairs == pairedChatLogs
    IN  /\ \A j \in 1..Len(chatLogs) : Cardinality(PairsHolding(chatLogs[j], pairs)) = 1
        /\ SumSlots(pairs) = Len(chatLogs)
        /\ \A i \in 1..Len(pairs) :
              /\ pairs[i].userMsg # <<>> =>
                    /\ pairs[i].userMsg[1].role = "user"
                    /\ pairs[i].read = pairs[i].userMsg[1].read
              /\ pairs[i].modelMsg # <<>> => pairs[i].modelMsg[1].role = "model"
              /\ pairs[i].userMsg = <<>> => pairs[i].read
        /\ unreadChatLogsCount = Cardinality({i \in 1..Len(pairs) : ~pairs[i].read})

\* A list with a read and an unread user entry, a model-only pair and a full
\* pair.
C26_Witness ==
    /\ Len(chatLogs) = MaxLogs
    /\ unreadChatLogsCount > 0
    /\ LET pairs == pairedChatLogs
       IN  \E i, j, k, l \in 1..Len(pairs) :
              /\ pairs[i].userMsg # <<>> /\ pairs[i].read
              /\ pairs[j].userMsg # <<>> /\ ~pairs[j].read
              /\ pairs[k].userMsg = <<>>
              /\ SlotsOf(pairs[l]) = 2

\* ------------------------------------------- inbox sync claims (C27, C28)
\* C27: in every reachable state 1 <= inboxPage <= totalInboxPages, and the
\* page shown is empty only if the filtered inbox is.
C27_PageInRange ==
    /\ 1 <= inboxPage
    /\ inboxPage <= totalInboxPages
    /\ paginatedInboxData = <<>> => processedInboxData = <<>>

\* The part of C27 that holds: a step that changes the page (a page button)
\* leaves the list alone and the page within the range of that list.
C27_ButtonsKeepRange ==
    [][inboxPage' # inboxPage =>
          /\ messages' = messages
          /\ 1 <= inboxPage'
          /\ inboxPage' <= totalInboxPages]_vars

\* The admin is on the last of several pages.
C27_OnLastPage == inboxPage > 1 /\ inboxPage = totalInboxPages

\* C28: the step in which a message deletion succeeds leaves messages equal to
\* the list held when the step is taken minus the deleted message.
C28_DeleteKeepsLatestList ==
    [][\A i \in 1..Len(mutationCalls) :
          deleteMessageSucceeds(i) =>
             messages' = WithoutMessages(messages, mutationCalls[i].target)]_vars

\* The part of C28 that holds: the step leaves messages equal to the list
\* captured when the deletion was confirmed minus the deleted message.
C28_DeleteAppliesToCapturedList ==
    [][\A i \in 1..Len(mutationCalls) :
          deleteMessageSucceeds(i) =>
             messages' = WithoutMessages(mutationCalls[i].messages,
                                         mutationCalls[i].target)]_vars

\* A poll response has been applied while a deletion is in flight.
C28_PolledDuringDelete ==
    \E i \in 1..Len(mutationCalls) :
       /\ mutationCalls[i].op = "deleteMessage"
       /\ messages # mutationCalls[i].messages

\* ------------------------------------------------- logo selection claim (C29)
\* C29: in every reachable state selectedLogoIds is a subset of the ids of the
\* logos held.
C29_SelectionWithinLogos == selectedLogoIds \subseteq Range(logos)

\* The part of C29 that holds: the step in which a bulk delete succeeds leaves
\* no logo whose id was selected when it was confirmed, and an empty selection.
C29_BulkDeleteClears ==
    [][\A i \in 1..Len(mutationCalls) :
          (mutationCalls[i].op = "deleteClientLogos" /\ mutationSucceeds(i)) =>
             /\ Range(logos') \cap mutationCalls[i].target = {}
             /\ selectedLogoIds' = {}]_vars

\* A selected logo has been deleted with its own delete icon.
C29_SelectedLogoDeleted == \E id \in selectedLogoIds : id \notin Range(logos)

\* ------------------------------------------------------ chat widget claim (C30)
\* C30: at most one webhook request is in flight, and isLoading is true
\* exactly while it is; a request is made only by a send with non-blank input
\* while not loading, in the step that appends the user message; every change
\* of the transcript appends one message, a user message with a new request or
\* a model message that ends the request and returns isLoading to false; so
\* the transcript alternates roles from the model greeting on and ends with a
\* model message whenever isLoading is false.
C30_ChatTranscript ==
    /\ [](Len(webhookCalls) <= 1)
    /\ [](isLoading <=> webhookCalls # <<>>)
    /\ [](widgetMessages[1] = Greeting)
    /\ [](\A j \in 1..Len(widgetMessages) :
             widgetMessages[j].role = IF j % 2 = 1 THEN "model" ELSE "user")
    /\ [](~isLoading => widgetMessages[Len(widgetMessages)].role = "model")
    /\ [][Len(webhookCalls') > Len(webhookCalls) =>
             /\ ~isLoading
             /\ Trim(input) # ""
             /\ isLoading'
             /\ widgetMessages' =
                   Append(widgetMessages, [role |-> "user", text |-> Trim(input)])]_vars
    /\ [][widgetMessages' # widgetMessages =>
             /\ Len(widgetMessages') = Len(widgetMessages) + 1
             /\ SubSeq(widgetMessages', 1, Len(widgetMessages)) = widgetMessages
             /\ IF widgetMessages'[Len(widgetMessages')].role = "user"
                THEN Len(webhookCalls') = Len(webhookCalls) + 1 /\ isLoading'
                ELSE Len(webhookCalls') = Len(webhookCalls) - 1 /\ ~isLoading']_vars
    /\ [][(isLoading /\ ~isLoading') =>
             /\ Len(widgetMessages') = Len(widgetMessages) + 1
             /\ widgetMessages'[Len(widgetMessages')].role = "model"]_vars

\* Two sends have been answered, one with a reply and one with an error text.
C30_Witness ==
    /\ ~isLoading
    /\ Len(widgetMessages) = 5
    /\ widgetMessages[3].text = "reply"
    /\ widgetMessages[5].text = ErrorMessage("Failed to fetch")
    /\ widgetMessages[4].text = "hi"

\* A send is awaiting the webhook while the visitor has closed the panel.
C30_InFlight == isLoading /\ ~isOpen /\ Len(webhookCalls) = 1

====
